---- MODULE Spec2Model ----
(***************************************************************************)
(* A model of the chess rules engine (ChessEngine.py), of the game loop    *)
(* that drives it (Main.py) and of the negamax search (SmortPart.py).      *)
(*                                                                         *)
(* A GameState object is a record.  Every method of GameState that changes *)
(* the object is an operator from a record to the changed record; a method *)
(* that also returns a value returns a record with the fields "moves" (or  *)
(* "score") and "gs".  Rows and columns are numbered as in the source:     *)
(* row 0 is rank 8, column 0 is file a.                                    *)
(***************************************************************************)
EXTENDS Integers, Sequences, FiniteSets, TLC

(***************************************************************************)
(* Pieces are the two-character strings of the source.  piece[0] and       *)
(* piece[1] of the source are Color and Type.                              *)
(***************************************************************************)
Color(p) ==
  IF p \in {"wp", "wR", "wN", "wB", "wQ", "wK"} THEN "w"
  ELSE IF p \in {"bp", "bR", "bN", "bB", "bQ", "bK"} THEN "b" ELSE "-"

Type(p) ==
  CASE p \in {"wp", "bp"} -> "p"
    [] p \in {"wR", "bR"} -> "R"
    [] p \in {"wN", "bN"} -> "N"
    [] p \in {"wB", "bB"} -> "B"
    [] p \in {"wQ", "bQ"} -> "Q"
    [] p \in {"wK", "bK"} -> "K"
    [] OTHER -> "-"

Piece(c, t) ==
  IF c = "w"
  THEN (CASE t = "p" -> "wp" [] t = "R" -> "wR" [] t = "N" -> "wN"
          [] t = "B" -> "wB" [] t = "Q" -> "wQ" [] OTHER -> "wK")
  ELSE (CASE t = "p" -> "bp" [] t = "R" -> "bR" [] t = "N" -> "bN"
          [] t = "B" -> "bB" [] t = "Q" -> "bQ" [] OTHER -> "bK")

Abs(x) == IF x < 0 THEN -x ELSE x

OnBoard(r, c) == 0 <= r /\ r < 8 /\ 0 <= c /\ c < 8

Row(a, b, c, d, e, f, g, h) ==
  [col \in 0..7 |-> <<a, b, c, d, e, f, g, h>>[col + 1]]

InitialBoard ==
  [row \in 0..7 |->
     <<Row("bR", "bN", "bB", "bQ", "bK", "bB", "bN", "bR"),
       Row("bp", "bp", "bp", "bp", "bp", "bp", "bp", "bp"),
       Row("--", "--", "--", "--", "--", "--", "--", "--"),
       Row("--", "--", "--", "--", "--", "--", "--", "--"),
       Row("--", "--", "--", "--", "--", "--", "--", "--"),
       Row("--", "--", "--", "--", "--", "--", "--", "--"),
       Row("wp", "wp", "wp", "wp", "wp", "wp", "wp", "wp"),
       Row("wR", "wN", "wB", "wQ", "wK", "wB", "wN", "wR")>>[row + 1]]

Put(board, r, c, p) == [board EXCEPT ![r][c] = p]

(***************************************************************************)
(* class Move.  The constructor reads the two squares of the board.        *)
(***************************************************************************)
Move(startSq, endSq, board, isEnPassantMove, isCastleMove) ==
  LET pm == board[startSq[1]][startSq[2]]
  IN [startRow |-> startSq[1], startCol |-> startSq[2],
      endRow |-> endSq[1], endCol |-> endSq[2],
      pieceMoved |-> pm,
      pieceCaptured |->
        IF isEnPassantMove THEN (IF pm = "wp" THEN "bp" ELSE "wp")
        ELSE board[endSq[1]][endSq[2]],
      isPawnPromotion |->
        (pm = "wp" /\ endSq[1] = 0) \/ (pm = "bp" /\ endSq[1] = 7),
      isCastleMove |-> isCastleMove,
      isEnPassantMove |-> isEnPassantMove,
      moveID |-> startSq[1] * 1000 + startSq[2] * 100 + endSq[1] * 10 + endSq[2]]

PlainMove(startSq, endSq, board) == Move(startSq, endSq, board, FALSE, FALSE)

\* Move.__eq__
MoveEq(m1, m2) == m1.moveID = m2.moveID

(***************************************************************************)
(* class CastleRights.  A CastleRights object is mutable and the source    *)
(* shares one between gs.castleRights and gs.castleRightsLog, so the       *)
(* record keeps the reference as well as the value: crRef is 0 when        *)
(* gs.castleRights is an object of its own and i when it is the very       *)
(* object stored at castleRightsLog[i].                                    *)
(***************************************************************************)
CastleRights(wks, wqs, bks, bqs) ==
  [whiteKingSide |-> wks, whiteQueenSide |-> wqs,
   blackKingSide |-> bks, blackQueenSide |-> bqs]


\* GameState.__init__ up to the first generation of moves (lines 162-207)
NewGameState ==
  [board |-> InitialBoard,
   whiteToMove |-> TRUE,
   moveLog |-> <<>>,
   isChecked |-> FALSE,
   pins |-> <<>>,
   checks |-> <<>>,
   enPassantTargetSquare |-> <<>>,
   enPassantTargetSquareLog |-> <<>>,
   castleRights |-> CastleRights(TRUE, TRUE, TRUE, TRUE),
   crRef |-> 0,
   castleRightsLog |-> <<CastleRights(TRUE, TRUE, TRUE, TRUE)>>,
   whiteKingLocation |-> <<7, 4>>,
   blackKingLocation |-> <<0, 4>>,
   validMoves |-> <<>>,
   moveMade |-> FALSE,
   gameOver |-> FALSE,
   checkmate |-> FALSE,
   stalemate |-> FALSE,
   threeMoveRepetition |-> FALSE]

\* updateCastleRights that also takes both rights of the side that moves a
\* pawn away from the king's file
updateCastleRightsPawn(cr, move) ==
  IF move.pieceMoved = "wp" /\ move.startRow = 6 /\ move.startCol = 4
  THEN [cr EXCEPT !.whiteKingSide = FALSE, !.whiteQueenSide = FALSE]
  ELSE IF move.pieceMoved = "bp" /\ move.startRow = 1 /\ move.startCol = 4
  THEN [cr EXCEPT !.blackKingSide = FALSE, !.blackQueenSide = FALSE]
  ELSE cr

\* updateCastleRights that grants the mover's rights again when a rook comes
\* back to its corner
updateCastleRightsRegain(cr, move) ==
  IF move.pieceMoved = "wK"
  THEN [cr EXCEPT !.whiteKingSide = FALSE, !.whiteQueenSide = FALSE]
  ELSE IF move.pieceMoved = "bK"
  THEN [cr EXCEPT !.blackKingSide = FALSE, !.blackQueenSide = FALSE]
  ELSE IF move.pieceMoved = "wR"
  THEN [cr EXCEPT !.whiteQueenSide = (move.endRow = 7 /\ move.endCol = 0),
                  !.whiteKingSide = (move.endRow = 7 /\ move.endCol = 7)]
  ELSE IF move.pieceMoved = "bR"
  THEN [cr EXCEPT !.blackQueenSide = (move.endRow = 0 /\ move.endCol = 0),
                  !.blackKingSide = (move.endRow = 0 /\ move.endCol = 7)]
  ELSE cr

\* updateCastleRights that tests the captured piece only when the moved piece
\* is neither a king nor a rook
updateCastleRightsCaptureLast(cr, move) ==
  IF move.pieceMoved = "wK"
  THEN [cr EXCEPT !.whiteKingSide = FALSE, !.whiteQueenSide = FALSE]
  ELSE IF move.pieceMoved = "bK"
  THEN [cr EXCEPT !.blackKingSide = FALSE, !.blackQueenSide = FALSE]
  ELSE IF move.pieceMoved = "wR"
  THEN [cr EXCEPT !.whiteQueenSide = @ /\ ~(move.startRow = 7 /\ move.startCol = 0),
                  !.whiteKingSide = @ /\ ~(move.startRow = 7 /\ move.startCol = 7)]
  ELSE IF move.pieceMoved = "bR"
  THEN [cr EXCEPT !.blackQueenSide = @ /\ ~(move.startRow = 0 /\ move.startCol = 0),
                  !.blackKingSide = @ /\ ~(move.startRow = 0 /\ move.startCol = 7)]
  ELSE IF move.pieceCaptured = "wR"
  THEN [cr EXCEPT !.whiteQueenSide = @ /\ ~(move.endRow = 7 /\ move.endCol = 0),
                  !.whiteKingSide = @ /\ ~(move.endRow = 7 /\ move.endCol = 7)]
  ELSE IF move.pieceCaptured = "bR"
  THEN [cr EXCEPT !.blackQueenSide = @ /\ ~(move.endRow = 0 /\ move.endCol = 0),
                  !.blackKingSide = @ /\ ~(move.endRow = 0 /\ move.endCol = 7)]
  ELSE cr

\* GameState.updateCastleRights: the value of the rights object after the call
updateCastleRights(cr, move) ==
  LET afterMoved ==
        IF move.pieceMoved = "wK"
        THEN [cr EXCEPT !.whiteKingSide = FALSE, !.whiteQueenSide = FALSE]
        ELSE IF move.pieceMoved = "bK"
        THEN [cr EXCEPT !.blackKingSide = FALSE, !.blackQueenSide = FALSE]
        ELSE IF move.pieceMoved = "wR"
        THEN (IF move.startRow = 7
              THEN (IF move.startCol = 0 THEN [cr EXCEPT !.whiteQueenSide = FALSE]
                    ELSE IF move.startCol = 7 THEN [cr EXCEPT !.whiteKingSide = FALSE]
                    ELSE cr)
              ELSE cr)
        ELSE IF move.pieceMoved = "bR"
        THEN (IF move.startRow = 0
              THEN (IF move.startCol = 0 THEN [cr EXCEPT !.blackQueenSide = FALSE]
                    ELSE IF move.startCol = 7 THEN [cr EXCEPT !.blackKingSide = FALSE]
                    ELSE cr)
              ELSE cr)
        ELSE cr
  IN IF move.pieceCaptured = "wR"
     THEN (IF move.endRow = 7
           THEN (IF move.endCol = 0 THEN [afterMoved EXCEPT !.whiteQueenSide = FALSE]
                 ELSE IF move.endCol = 7 THEN [afterMoved EXCEPT !.whiteKingSide = FALSE]
                 ELSE afterMoved)
           ELSE afterMoved)
     ELSE IF move.pieceCaptured = "bR"
     THEN (IF move.endRow = 0
           THEN (IF move.endCol = 0 THEN [afterMoved EXCEPT !.blackQueenSide = FALSE]
                 ELSE IF move.endCol = 7 THEN [afterMoved EXCEPT !.blackKingSide = FALSE]
                 ELSE afterMoved)
           ELSE afterMoved)
     ELSE afterMoved

\* The board after the assignments of makeMove (lines 219-254)
makeMoveBoard(board, move) ==
  LET b1 == Put(Put(board, move.startRow, move.startCol, "--"),
                move.endRow, move.endCol, move.pieceMoved)
      b2 == IF move.isPawnPromotion
            THEN Put(b1, move.endRow, move.endCol, Piece(Color(move.pieceMoved), "Q"))
            ELSE b1
      b3 == IF move.isEnPassantMove
            THEN Put(b2, move.startRow, move.endCol, "--")
            ELSE b2
  IN IF move.isCastleMove
     THEN (IF move.endCol - move.startCol = 2
           THEN Put(Put(b3, move.endRow, move.endCol - 1, b3[move.endRow][move.endCol + 1]),
                    move.endRow, move.endCol + 1, "--")
           ELSE Put(Put(b3, move.endRow, move.endCol + 1, b3[move.endRow][move.endCol - 2]),
                    move.endRow, move.endCol - 2, "--"))
     ELSE b3

\* makeMoveEnPassantTarget with the square the pawn lands on as the target
makeMoveEnPassantTargetEndSquare(move) ==
  IF Type(move.pieceMoved) = "p" /\ Abs(move.startRow - move.endRow) = 2
  THEN <<move.endRow, move.endCol>>
  ELSE <<>>

\* The en-passant target makeMove sets (lines 239-242)
makeMoveEnPassantTarget(move) ==
  IF Type(move.pieceMoved) = "p" /\ Abs(move.startRow - move.endRow) = 2
  THEN <<(move.startRow + move.endRow) \div 2, move.endCol>>
  ELSE <<>>

\* GameState.makeMove.  updateCastleRights mutates the object gs.castleRights
\* refers to, which is also an entry of the log when crRef is not 0; the
\* entry appended to the log is a fresh copy.
makeMove(g, move) ==
  LET ep == makeMoveEnPassantTarget(move)
      cr == updateCastleRights(g.castleRights, move)
      log == IF g.crRef = 0 THEN g.castleRightsLog
             ELSE [g.castleRightsLog EXCEPT ![g.crRef] = cr]
  IN [g EXCEPT
        !.board = makeMoveBoard(g.board, move),
        !.moveLog = Append(g.moveLog, move),
        !.whiteToMove = ~g.whiteToMove,
        !.whiteKingLocation =
           IF move.pieceMoved = "wK" THEN <<move.endRow, move.endCol>> ELSE @,
        !.blackKingLocation =
           IF move.pieceMoved = "bK" THEN <<move.endRow, move.endCol>> ELSE @,
        !.enPassantTargetSquare = ep,
        !.enPassantTargetSquareLog = Append(g.enPassantTargetSquareLog, ep),
        !.castleRights = cr,
        !.castleRightsLog = Append(log, cr)]

Front(s) == SubSeq(s, 1, Len(s) - 1)

Last(s) == s[Len(s)]

\* undoMoveBoard without the en-passant case: the captured pawn is put on the
\* square the capturing pawn landed on
undoMoveBoardNoEnPassant(board, move) ==
  LET b1 == Put(Put(board, move.startRow, move.startCol, move.pieceMoved),
                move.endRow, move.endCol, move.pieceCaptured)
  IN IF move.isCastleMove
     THEN (IF move.endCol - move.startCol = 2
           THEN Put(Put(b1, move.endRow, move.endCol + 1, b1[move.endRow][move.endCol - 1]),
                    move.endRow, move.endCol - 1, "--")
           ELSE Put(Put(b1, move.endRow, move.endCol - 2, b1[move.endRow][move.endCol + 1]),
                    move.endRow, move.endCol + 1, "--"))
     ELSE b1

\* The board after the assignments of undoMove (lines 276-308)
undoMoveBoard(board, move) ==
  LET b1 == Put(Put(board, move.startRow, move.startCol, move.pieceMoved),
                move.endRow, move.endCol, move.pieceCaptured)
      captureRow == move.endRow + (IF Color(move.pieceMoved) = "w" THEN 1 ELSE -1)
      b2 == IF move.isEnPassantMove
            THEN Put(Put(b1, move.endRow, move.endCol, "--"),
                     captureRow, move.endCol, move.pieceCaptured)
            ELSE b1
  IN IF move.isCastleMove
     THEN (IF move.endCol - move.startCol = 2
           THEN Put(Put(b2, move.endRow, move.endCol + 1, b2[move.endRow][move.endCol - 1]),
                    move.endRow, move.endCol - 1, "--")
           ELSE Put(Put(b2, move.endRow, move.endCol - 2, b2[move.endRow][move.endCol + 1]),
                    move.endRow, move.endCol + 1, "--"))
     ELSE b2

\* GameState.updateCastleRightsUndo: pops the log and makes gs.castleRights
\* refer to the object that is now the last entry of the log (no copy).
updateCastleRightsUndo(g) ==
  IF Len(g.castleRightsLog) > 0
  THEN LET log == Front(g.castleRightsLog)
       IN [g EXCEPT !.castleRightsLog = log,
                    !.castleRights = Last(log),
                    !.crRef = Len(log)]
  ELSE [g EXCEPT !.castleRights = CastleRights(TRUE, TRUE, TRUE, TRUE),
                 !.crRef = 0]

\* The body of undoMove for a non-empty moveLog (lines 273-315)
undoLastMove(g) ==
  LET move == Last(g.moveLog)
      epLog == IF Len(g.enPassantTargetSquareLog) > 0
               THEN Front(g.enPassantTargetSquareLog)
               ELSE g.enPassantTargetSquareLog
      ep == IF Len(g.enPassantTargetSquareLog) > 0 /\ Len(epLog) > 0
            THEN Last(epLog) ELSE <<>>
      g1 == [g EXCEPT
               !.moveLog = Front(g.moveLog),
               !.board = undoMoveBoard(g.board, move),
               !.whiteToMove = ~g.whiteToMove,
               !.whiteKingLocation =
                  IF move.pieceMoved = "wK"
                  THEN <<move.startRow, move.startCol>> ELSE @,
               !.blackKingLocation =
                  IF move.pieceMoved = "bK"
                  THEN <<move.startRow, move.startCol>> ELSE @,
               !.enPassantTargetSquareLog = epLog,
               !.enPassantTargetSquare = ep]
  IN [updateCastleRightsUndo(g1) EXCEPT !.checkmate = FALSE, !.stalemate = FALSE]

\* undoMove with the turn flipped before the test for an empty moveLog
undoMoveTurnBeforeGuard(g) ==
  IF Len(g.moveLog) > 0 THEN undoLastMove(g)
  ELSE [g EXCEPT !.whiteToMove = ~g.whiteToMove]

\* undoMove without the two assignments that reset the game end states
undoMoveFlagsKept(g) ==
  IF Len(g.moveLog) > 0
  THEN [undoLastMove(g) EXCEPT !.checkmate = g.checkmate, !.stalemate = g.stalemate]
  ELSE g

\* GameState.undoMove
undoMove(g) ==
  IF Len(g.moveLog) > 0 THEN undoLastMove(g) ELSE g

(***************************************************************************)
(* Check and attack detection                                              *)
(***************************************************************************)
knightMovesScan ==
  << <<-2, -1>>, <<-2, 1>>, <<-1, -2>>, <<-1, 2>>,
     <<1, -2>>, <<1, 2>>, <<2, -1>>, <<2, 1>> >>

kingMoves ==
  << <<-1, -1>>, <<-1, 0>>, <<-1, 1>>, <<0, -1>>,
     <<0, 1>>, <<1, -1>>, <<1, 0>>, <<1, 1>> >>

rookDirections == << <<-1, 0>>, <<1, 0>>, <<0, -1>>, <<0, 1>> >>

bishopDirections == << <<-1, -1>>, <<-1, 1>>, <<1, -1>>, <<1, 1>> >>

InSeq(x, s) == \E k \in 1..Len(s) : s[k] = x

\* The inner loop of isSquareAttacked for one sliding direction d (lines 565-574)
RECURSIVE SlidingAttack(_, _, _, _, _, _)
SlidingAttack(board, oppColor, row, col, d, i) ==
  LET checkRow == row + d[1] * i
      checkCol == col + d[2] * i
  IN IF i > 7 \/ ~OnBoard(checkRow, checkCol) THEN FALSE
     ELSE LET piece == board[checkRow][checkCol]
          IN IF piece = "--"
             THEN SlidingAttack(board, oppColor, row, col, d, i + 1)
             ELSE Color(piece) = oppColor
                  /\ (Type(piece) = "Q"
                      \/ (Type(piece) = "R" /\ InSeq(d, rookDirections))
                      \/ (Type(piece) = "B" /\ InSeq(d, bishopDirections)))

\* GameState.isSquareAttacked, on a board and for a side to move
isSquareAttacked(board, whiteToMove, row, col) ==
  LET oppColor == IF whiteToMove THEN "b" ELSE "w"
      pawnDirection == IF whiteToMove THEN -1 ELSE 1
  IN \/ /\ 0 <= row + pawnDirection
        /\ row + pawnDirection < 8
        /\ \/ (col - 1 >= 0 /\ board[row + pawnDirection][col - 1] = Piece(oppColor, "p"))
           \/ (col + 1 < 8 /\ board[row + pawnDirection][col + 1] = Piece(oppColor, "p"))
     \/ \E k \in 1..8 :
           /\ OnBoard(row + knightMovesScan[k][1], col + knightMovesScan[k][2])
           /\ board[row + knightMovesScan[k][1]][col + knightMovesScan[k][2]]
                = Piece(oppColor, "N")
     \/ \E k \in 1..4 : SlidingAttack(board, oppColor, row, col, rookDirections[k], 1)
     \/ \E k \in 1..4 : SlidingAttack(board, oppColor, row, col, bishopDirections[k], 1)
     \/ \E k \in 1..8 :
           /\ OnBoard(row + kingMoves[k][1], col + kingMoves[k][2])
           /\ board[row + kingMoves[k][1]][col + kingMoves[k][2]] = Piece(oppColor, "K")

KingLocation(g) ==
  IF g.whiteToMove THEN g.whiteKingLocation ELSE g.blackKingLocation

\* GameState.inCheck
inCheck(g) ==
  isSquareAttacked(g.board, g.whiteToMove, KingLocation(g)[1], KingLocation(g)[2])

DIRECTIONS ==
  << <<-1, 0>>, <<0, -1>>, <<1, 0>>, <<0, 1>>,
     <<-1, -1>>, <<-1, 1>>, <<1, -1>>, <<1, 1>> >>

\* One ray of checkForPinsandChecks (lines 479-508): j is the 0-based index of
\* the direction, possiblePins is <<>> for None.  The result is
\* <<"check", entry>>, <<"pin", entry>> or <<"none">>.
RECURSIVE ScanRay(_, _, _, _, _, _, _, _)
ScanRay(board, allyColor, oppColor, kingRow, kingCol, j, i, possiblePins) ==
  LET dx == DIRECTIONS[j + 1][1]
      dy == DIRECTIONS[j + 1][2]
      endRow == kingRow + dx * i
      endCol == kingCol + dy * i
  IN IF i > 7 \/ ~OnBoard(endRow, endCol) THEN <<"none">>
     ELSE LET endPiece == board[endRow][endCol]
              pieceType == Type(endPiece)
          IN IF Color(endPiece) = allyColor
             THEN (IF possiblePins = <<>>
                   THEN ScanRay(board, allyColor, oppColor, kingRow, kingCol, j, i + 1,
                                <<endRow, endCol, dx, dy>>)
                   ELSE <<"none">>)
             ELSE IF Color(endPiece) = oppColor
             THEN (IF \/ (0 <= j /\ j <= 3 /\ pieceType = "R")
                      \/ (4 <= j /\ j <= 7 /\ pieceType = "B")
                      \/ pieceType = "Q"
                      \/ (i = 1 /\ pieceType = "p"
                          /\ ((oppColor = "w" /\ 6 <= j /\ j <= 7)
                              \/ (oppColor = "b" /\ 4 <= j /\ j <= 5)))
                   THEN (IF possiblePins = <<>>
                         THEN <<"check", <<endRow, endCol, dx, dy>> >>
                         ELSE <<"pin", possiblePins>>)
                   ELSE <<"none">>)
             ELSE ScanRay(board, allyColor, oppColor, kingRow, kingCol, j, i + 1,
                          possiblePins)

\* The entries of one kind that the eight rays give, in the order of DIRECTIONS
RECURSIVE ScanRays(_, _, _, _, _, _, _)
ScanRays(board, allyColor, oppColor, kingRow, kingCol, j, kind) ==
  IF j > 7 THEN <<>>
  ELSE LET r == ScanRay(board, allyColor, oppColor, kingRow, kingCol, j, 1, <<>>)
       IN (IF r[1] = kind THEN <<r[2]>> ELSE <<>>)
          \o ScanRays(board, allyColor, oppColor, kingRow, kingCol, j + 1, kind)

\* The knight checks of checkForPinsandChecks (lines 510-517)
RECURSIVE ScanKnights(_, _, _, _, _)
ScanKnights(board, oppColor, kingRow, kingCol, k) ==
  IF k > 8 THEN <<>>
  ELSE LET n == knightMovesScan[k]
           endRow == kingRow + n[1]
           endCol == kingCol + n[2]
       IN (IF OnBoard(endRow, endCol) /\ board[endRow][endCol] = Piece(oppColor, "N")
           THEN << <<endRow, endCol, n[1], n[2]>> >> ELSE <<>>)
          \o ScanKnights(board, oppColor, kingRow, kingCol, k + 1)

\* The return statement of checkForPinsandChecks (line 520)
scanResult(pins, checks) ==
  [isChecked |-> Len(checks) > 0, pins |-> pins, checks |-> checks]

\* GameState.checkForPinsandChecks: the triple it returns
checkForPinsandChecks(g) ==
  LET oppColor == IF g.whiteToMove THEN "b" ELSE "w"
      allyColor == IF g.whiteToMove THEN "w" ELSE "b"
      kingRow == KingLocation(g)[1]
      kingCol == KingLocation(g)[2]
  IN scanResult(ScanRays(g.board, allyColor, oppColor, kingRow, kingCol, 0, "pin"),
                ScanRays(g.board, allyColor, oppColor, kingRow, kingCol, 0, "check")
                \o ScanKnights(g.board, oppColor, kingRow, kingCol, 1))

\* gs.isChecked, gs.pins, gs.checks = r, for a triple r
withPinsAndChecks(g, r) ==
  [g EXCEPT !.isChecked = r.isChecked, !.pins = r.pins, !.checks = r.checks]

\* gs.isChecked, gs.pins, gs.checks = gs.checkForPinsandChecks()
scanPinsAndChecks(g) == withPinsAndChecks(g, checkForPinsandChecks(g))


(***************************************************************************)
(* Move generation.  Lists of moves are sequences in the order in which    *)
(* the source appends to them.                                             *)
(***************************************************************************)
AllyColor(g) == IF g.whiteToMove THEN "w" ELSE "b"

\* The inner loop of rookValidMoves, bishopValidMoves and queenValidMoves
\* for one direction d
RECURSIVE SlideMoves(_, _, _, _, _)
SlideMoves(g, row, col, d, i) ==
  LET endRow == row + d[1] * i
      endCol == col + d[2] * i
  IN IF i > 7 \/ ~OnBoard(endRow, endCol) THEN <<>>
     ELSE IF g.board[endRow][endCol] = "--"
     THEN <<PlainMove(<<row, col>>, <<endRow, endCol>>, g.board)>>
          \o SlideMoves(g, row, col, d, i + 1)
     ELSE IF Color(g.board[endRow][endCol]) # AllyColor(g)
     THEN <<PlainMove(<<row, col>>, <<endRow, endCol>>, g.board)>>
     ELSE <<>>

\* GameState.rookValidMoves
rookValidMoves(g, row, col) ==
  SlideMoves(g, row, col, <<-1, 0>>, 1) \o SlideMoves(g, row, col, <<1, 0>>, 1)
  \o SlideMoves(g, row, col, <<0, -1>>, 1) \o SlideMoves(g, row, col, <<0, 1>>, 1)

\* GameState.bishopValidMoves
bishopValidMoves(g, row, col) ==
  SlideMoves(g, row, col, <<-1, -1>>, 1) \o SlideMoves(g, row, col, <<-1, 1>>, 1)
  \o SlideMoves(g, row, col, <<1, -1>>, 1) \o SlideMoves(g, row, col, <<1, 1>>, 1)

\* GameState.queenValidMoves
queenValidMoves(g, row, col) ==
  rookValidMoves(g, row, col) \o bishopValidMoves(g, row, col)

\* knightMovesGen with the steps of a king in place of the jumps of a knight
knightMovesGenOneStep ==
  << <<-1, -1>>, <<-1, 0>>, <<-1, 1>>, <<0, -1>>,
     <<0, 1>>, <<1, -1>>, <<1, 0>>, <<1, 1>> >>

knightMovesGen ==
  << <<-2, -1>>, <<-1, -2>>, <<1, -2>>, <<2, -1>>,
     <<-2, 1>>, <<-1, 2>>, <<1, 2>>, <<2, 1>> >>

RECURSIVE KnightFrom(_, _, _, _)
KnightFrom(g, row, col, k) ==
  IF k > 8 THEN <<>>
  ELSE LET endRow == row + knightMovesGen[k][1]
           endCol == col + knightMovesGen[k][2]
       IN (IF OnBoard(endRow, endCol)
              /\ (g.board[endRow][endCol] = "--"
                  \/ Color(g.board[endRow][endCol]) # AllyColor(g))
           THEN <<PlainMove(<<row, col>>, <<endRow, endCol>>, g.board)>>
           ELSE <<>>)
          \o KnightFrom(g, row, col, k + 1)

\* GameState.knightValidMoves
knightValidMoves(g, row, col) == KnightFrom(g, row, col, 1)

\* kingValidMoves without the test that the destination is not attacked
kingValidMovesUnsafe(g, kingRow, kingCol) ==
  LET free(k) ==
        /\ OnBoard(kingRow + kingMoves[k][1], kingCol + kingMoves[k][2])
        /\ Color(g.board[kingRow + kingMoves[k][1]][kingCol + kingMoves[k][2]])
             # AllyColor(g)
      steps == SelectSeq(<<1, 2, 3, 4, 5, 6, 7, 8>>, free)
  IN [i \in 1..Len(steps) |->
        PlainMove(<<kingRow, kingCol>>,
                  <<kingRow + kingMoves[steps[i]][1], kingCol + kingMoves[steps[i]][2]>>,
                  g.board)]

RECURSIVE KingFrom(_, _, _, _)
KingFrom(g, kingRow, kingCol, k) ==
  IF k > 8 THEN <<>>
  ELSE LET endRow == kingRow + kingMoves[k][1]
           endCol == kingCol + kingMoves[k][2]
           king == IF g.whiteToMove THEN "wK" ELSE "bK"
           \* the board while the king is temporarily moved (lines 792-794)
           temp == Put(Put(g.board, kingRow, kingCol, "--"), endRow, endCol, king)
       IN (IF OnBoard(endRow, endCol)
              /\ (g.board[endRow][endCol] = "--"
                  \/ Color(g.board[endRow][endCol]) # AllyColor(g))
              /\ ~isSquareAttacked(temp, g.whiteToMove, endRow, endCol)
           THEN <<PlainMove(<<kingRow, kingCol>>, <<endRow, endCol>>, g.board)>>
           ELSE <<>>)
          \o KingFrom(g, kingRow, kingCol, k + 1)

\* GameState.kingValidMoves.  The board is restored before each append, so
\* the Move objects are built from the unchanged board.
kingValidMoves(g, kingRow, kingCol) == KingFrom(g, kingRow, kingCol, 1)

\* GameState.isEnPassantSafe
isEnPassantSafe(g, startRow, startCol, endRow, endCol) ==
  LET temp == Put(Put(Put(g.board, endRow, endCol, g.board[startRow][startCol]),
                      startRow, startCol, "--"),
                  startRow, endCol, "--")
  IN ~isSquareAttacked(temp, g.whiteToMove, KingLocation(g)[1], KingLocation(g)[2])

\* The index of the pin pawnValidMoves finds for (row, col), scanning from
\* the end of the list (lines 606-611); 0 when there is none
RECURSIVE PinIndex(_, _, _, _)
PinIndex(pins, row, col, i) ==
  IF i < 1 THEN 0
  ELSE IF pins[i][1] = row /\ pins[i][2] = col THEN i
  ELSE PinIndex(pins, row, col, i - 1)

\* list.remove(x): removes the first element equal to x
RECURSIVE RemoveFirst(_, _)
RemoveFirst(s, x) ==
  IF s = <<>> THEN <<>>
  ELSE IF Head(s) = x THEN Tail(s)
  ELSE <<Head(s)>> \o RemoveFirst(Tail(s), x)

\* The captures of pawnValidMoves towards column col + dc (lines 636-653)
PawnCaptures(g, row, col, dc, moveAmount, enemyColor, piecePinned, pinDirection) ==
  IF col + dc >= 0 /\ col + dc < 8
     /\ (~piecePinned \/ pinDirection = <<moveAmount, dc>>)
  THEN (IF Color(g.board[row + moveAmount][col + dc]) = enemyColor
        THEN <<PlainMove(<<row, col>>, <<row + moveAmount, col + dc>>, g.board)>>
        ELSE <<>>)
       \o (IF <<row + moveAmount, col + dc>> = g.enPassantTargetSquare
              /\ isEnPassantSafe(g, row, col, row + moveAmount, col + dc)
           THEN <<Move(<<row, col>>, <<row + moveAmount, col + dc>>, g.board,
                       TRUE, FALSE)>>
           ELSE <<>>)
  ELSE <<>>

\* pawnValidMoves calls isEnPassantSafe for the capture towards column
\* col + dc (lines 637-642 and 647-652)
EnPassantTested(g, row, col, dc, moveAmount, piecePinned, pinDirection) ==
  /\ col + dc >= 0 /\ col + dc < 8
  /\ ~piecePinned \/ pinDirection = <<moveAmount, dc>>
  /\ <<row + moveAmount, col + dc>> = g.enPassantTargetSquare

\* The board after the calls of isEnPassantSafe that pawnValidMoves makes:
\* lines 665-667 empty the target square and put a pawn of the enemy beside
\* the capturing pawn, whatever stood there
afterEnPassantTests(g, row, col, moveAmount, enemyColor, piecePinned, pinDirection) ==
  IF EnPassantTested(g, row, col, -1, moveAmount, piecePinned, pinDirection)
  THEN Put(Put(g.board, row + moveAmount, col - 1, "--"), row, col - 1,
           IF enemyColor = "b" THEN "bp" ELSE "wp")
  ELSE IF EnPassantTested(g, row, col, 1, moveAmount, piecePinned, pinDirection)
  THEN Put(Put(g.board, row + moveAmount, col + 1, "--"), row, col + 1,
           IF enemyColor = "b" THEN "bp" ELSE "wp")
  ELSE g.board

\* GameState.pawnValidMoves: the moves, gs.pins after the call (a pin
\* matched by the pawn is removed from the list) and gs.board after the call
pawnValidMoves(g, row, col) ==
  LET idx == PinIndex(g.pins, row, col, Len(g.pins))
      piecePinned == idx # 0
      pinDirection == IF piecePinned THEN <<g.pins[idx][3], g.pins[idx][4]>> ELSE <<>>
      pins == IF piecePinned THEN RemoveFirst(g.pins, g.pins[idx]) ELSE g.pins
      moveAmount == IF g.whiteToMove THEN -1 ELSE 1
      startRow == IF g.whiteToMove THEN 6 ELSE 1
      enemyColor == IF g.whiteToMove THEN "b" ELSE "w"
      forward ==
        IF g.board[row + moveAmount][col] = "--"
           /\ (~piecePinned \/ pinDirection = <<moveAmount, 0>>)
        THEN <<PlainMove(<<row, col>>, <<row + moveAmount, col>>, g.board)>>
             \o (IF row = startRow /\ g.board[row + 2 * moveAmount][col] = "--"
                 THEN <<PlainMove(<<row, col>>, <<row + 2 * moveAmount, col>>, g.board)>>
                 ELSE <<>>)
        ELSE <<>>
  IN [moves |-> forward
                \o PawnCaptures(g, row, col, -1, moveAmount, enemyColor,
                                piecePinned, pinDirection)
                \o PawnCaptures(g, row, col, 1, moveAmount, enemyColor,
                                piecePinned, pinDirection),
      pins |-> pins,
      board |-> afterEnPassantTests(g, row, col, moveAmount, enemyColor,
                                    piecePinned, pinDirection)]

\* self.moveFunction[piece[1]](row, col): the moves, and gs.pins and gs.board
\* after the call
moveFunction(g, row, col) ==
  LET t == Type(g.board[row][col])
  IN IF t = "p" THEN pawnValidMoves(g, row, col)
     ELSE [moves |-> CASE t = "N" -> knightValidMoves(g, row, col)
                       [] t = "B" -> bishopValidMoves(g, row, col)
                       [] t = "Q" -> queenValidMoves(g, row, col)
                       [] t = "K" -> kingValidMoves(g, row, col)
                       [] OTHER -> rookValidMoves(g, row, col),
           pins |-> g.pins,
           board |-> g.board]

\* The moves appended, and gs.pins and gs.board after two parts of a loop,
\* here followed by rest
ScanJoin(here, rest) ==
  [moves |-> here.moves \o rest.moves, pins |-> rest.pins, board |-> rest.board]

\* The inner loop of validMoveIfNotCheck (lines 449-453) from column col on:
\* the moves appended and gs.pins after it.  ScanRowAfter continues the loop
\* after the piece on (row, col) has given the moves and pins of here.
RECURSIVE ScanRow(_, _, _)
RECURSIVE ScanRowAfter(_, _, _, _)
ScanRowAfter(g, row, col, here) ==
  ScanJoin(here, ScanRow([g EXCEPT !.pins = here.pins, !.board = here.board],
                         row, col + 1))

ScanRow(g, row, col) ==
  IF col > 7 THEN [moves |-> <<>>, pins |-> g.pins, board |-> g.board]
  ELSE IF g.board[row][col] # "--" /\ Color(g.board[row][col]) = AllyColor(g)
  THEN ScanRowAfter(g, row, col, moveFunction(g, row, col))
  ELSE ScanRow(g, row, col + 1)

\* The outer loop of validMoveIfNotCheck (lines 448-453) from row on
RECURSIVE ScanBoard(_, _)
RECURSIVE ScanBoardAfter(_, _, _)
ScanBoardAfter(g, row, here) ==
  ScanJoin(here, ScanBoard([g EXCEPT !.pins = here.pins, !.board = here.board],
                           row + 1))

ScanBoard(g, row) ==
  IF row > 7 THEN [moves |-> <<>>, pins |-> g.pins, board |-> g.board]
  ELSE ScanBoardAfter(g, row, ScanRow(g, row, 0))

\* GameState.validMoveIfNotCheck: the moves, and gs.pins and gs.board after
\* the call
validMoveIfNotCheck(g) == ScanBoard(g, 0)

\* GameState.kingSideCastling: the moves it appends
kingSideCastling(g, kingRow, kingCol) ==
  IF g.board[kingRow][kingCol + 1] = "--" /\ g.board[kingRow][kingCol + 2] = "--"
     /\ ~isSquareAttacked(g.board, g.whiteToMove, kingRow, kingCol + 1)
     /\ ~isSquareAttacked(g.board, g.whiteToMove, kingRow, kingCol + 2)
  THEN <<Move(<<kingRow, kingCol>>, <<kingRow, kingCol + 2>>, g.board, FALSE, TRUE)>>
  ELSE <<>>

\* queenSideCastling that tests the three squares for emptiness only
queenSideCastlingUntested(g, kingRow, kingCol) ==
  IF g.board[kingRow][kingCol - 1] = "--" /\ g.board[kingRow][kingCol - 2] = "--"
     /\ g.board[kingRow][kingCol - 3] = "--"
  THEN <<Move(<<kingRow, kingCol>>, <<kingRow, kingCol - 2>>, g.board, FALSE, TRUE)>>
  ELSE <<>>

\* GameState.queenSideCastling: the moves it appends
queenSideCastling(g, kingRow, kingCol) ==
  IF g.board[kingRow][kingCol - 1] = "--" /\ g.board[kingRow][kingCol - 2] = "--"
     /\ g.board[kingRow][kingCol - 3] = "--"
     /\ ~isSquareAttacked(g.board, g.whiteToMove, kingRow, kingCol - 1)
     /\ ~isSquareAttacked(g.board, g.whiteToMove, kingRow, kingCol - 2)
  THEN <<Move(<<kingRow, kingCol>>, <<kingRow, kingCol - 2>>, g.board, FALSE, TRUE)>>
  ELSE <<>>

\* getCastlingMoves without the test that the king is in check
getCastlingMovesInCheck(g, kingRow, kingCol) ==
  (IF (g.whiteToMove /\ g.castleRights.whiteKingSide)
      \/ (~g.whiteToMove /\ g.castleRights.blackKingSide)
   THEN kingSideCastling(g, kingRow, kingCol) ELSE <<>>)
  \o (IF (g.whiteToMove /\ g.castleRights.whiteQueenSide)
         \/ (~g.whiteToMove /\ g.castleRights.blackQueenSide)
      THEN queenSideCastling(g, kingRow, kingCol) ELSE <<>>)

\* GameState.getCastlingMoves: the moves it appends
getCastlingMoves(g, kingRow, kingCol) ==
  IF inCheck(g) THEN <<>>
  ELSE (IF (g.whiteToMove /\ g.castleRights.whiteKingSide)
           \/ (~g.whiteToMove /\ g.castleRights.blackKingSide)
        THEN kingSideCastling(g, kingRow, kingCol) ELSE <<>>)
       \o (IF (g.whiteToMove /\ g.castleRights.whiteQueenSide)
              \/ (~g.whiteToMove /\ g.castleRights.blackQueenSide)
           THEN queenSideCastling(g, kingRow, kingCol) ELSE <<>>)

\* The squares a non-king move may end on in single check (lines 402-408)
RECURSIVE CheckRay(_, _, _, _)
CheckRay(kingRow, kingCol, check, i) ==
  IF i > 7 THEN <<>>
  ELSE LET validSquare == <<kingRow + check[3] * i, kingCol + check[4] * i>>
       IN <<validSquare>>
          \o (IF validSquare[1] = check[1] /\ validSquare[2] = check[2]
              THEN <<>> ELSE CheckRay(kingRow, kingCol, check, i + 1))

validSquares(g, kingRow, kingCol) ==
  LET check == g.checks[1]
  IN << <<check[1], check[2]>> >>
     \o (IF Type(g.board[check[1]][check[2]]) \notin {"N", "p"}
         THEN CheckRay(kingRow, kingCol, check, 1) ELSE <<>>)

\* The filter of the single-check branch (lines 411-415), from moves[i] on
RECURSIVE FilterCheckFrom(_, _, _)
FilterCheckFrom(moves, squares, i) ==
  IF i > Len(moves) THEN <<>>
  ELSE (IF Type(moves[i].pieceMoved) = "K"
           \/ InSeq(<<moves[i].endRow, moves[i].endCol>>, squares)
        THEN <<moves[i]>> ELSE <<>>)
       \o FilterCheckFrom(moves, squares, i + 1)

FilterCheck(g, moves, squares) == FilterCheckFrom(moves, squares, 1)

\* The test of lines 421-428 for one move: the first pin on the move's start
\* square decides (the loop over self.pins breaks at it)
RECURSIVE KeptByPins(_, _, _)
KeptByPins(move, pins, k) ==
  IF k > Len(pins) THEN TRUE
  ELSE IF move.startRow = pins[k][1] /\ move.startCol = pins[k][2]
  THEN (move.endRow - pins[k][1]) * pins[k][4] = (move.endCol - pins[k][2]) * pins[k][3]
  ELSE KeptByPins(move, pins, k + 1)

\* The filter of the no-check branch (lines 419-430), from moves[i] on: pins
\* is gs.pins after validMoveIfNotCheck has run
RECURSIVE FilterPinsFrom(_, _, _)
FilterPinsFrom(moves, pins, i) ==
  IF i > Len(moves) THEN <<>>
  ELSE (IF KeptByPins(moves[i], pins, 1) THEN <<moves[i]>> ELSE <<>>)
       \o FilterPinsFrom(moves, pins, i + 1)

FilterPins(moves, pins) == FilterPinsFrom(moves, pins, 1)

\* Lines 433-439 of validMoveIfCheck: the flags set for an empty list
validMoveIfCheckFlags(g, validMoves) ==
  [moves |-> validMoves,
   gs |-> IF Len(validMoves) = 0
          THEN (IF g.isChecked THEN [g EXCEPT !.checkmate = TRUE]
                ELSE [g EXCEPT !.stalemate = TRUE])
          ELSE g]

\* Lines 409-431 of validMoveIfCheck: gen is what validMoveIfNotCheck gave
validMoveIfCheckFilter(g, kingRow, kingCol, gen) ==
  validMoveIfCheckFlags(
    [g EXCEPT !.pins = gen.pins, !.board = gen.board],
    (IF g.isChecked
     THEN FilterCheck(g, gen.moves, validSquares(g, kingRow, kingCol))
     ELSE FilterPins(gen.moves, gen.pins))
    \o getCastlingMoves([g EXCEPT !.pins = gen.pins, !.board = gen.board],
                        kingRow, kingCol))

\* GameState.validMoveIfCheck: the list it returns and the object after the
\* call (pawnValidMoves changes gs.pins, isEnPassantSafe rewrites three
\* squares of gs.board; the method sets checkmate/stalemate)
validMoveIfCheck(g) ==
  IF g.isChecked /\ Len(g.checks) > 1
  THEN [moves |-> kingValidMoves(g, KingLocation(g)[1], KingLocation(g)[2]), gs |-> g]
  ELSE validMoveIfCheckFilter(g, KingLocation(g)[1], KingLocation(g)[2],
                              validMoveIfNotCheck(g))

\* threeMoveRule that compares the last two moves with the two moves right
\* before them
threeMoveRuleAdjacent(g) ==
  LET n == Len(g.moveLog)
  IN n >= 4 /\ MoveEq(g.moveLog[n], g.moveLog[n - 2])
            /\ MoveEq(g.moveLog[n - 1], g.moveLog[n - 3])

\* GameState.threeMoveRule
threeMoveRule(g) ==
  LET n == Len(g.moveLog)
  IN n >= 6 /\ MoveEq(g.moveLog[n], g.moveLog[n - 4])
            /\ MoveEq(g.moveLog[n - 1], g.moveLog[n - 5])

\* The assignments of GameState.__init__ after the call of validMoveIfCheck
\* (lines 208-214), r being what the call gave
constructed(r) ==
  [r.gs EXCEPT !.validMoves = r.moves, !.moveMade = FALSE, !.gameOver = FALSE,
               !.checkmate = FALSE, !.stalemate = FALSE,
               !.threeMoveRepetition = FALSE]

\* GameState.__init__: the object main() gets from GameState()
GameState == constructed(validMoveIfCheck(NewGameState))

(***************************************************************************)
(* The evaluator of SmortPart.py.  Scores are integers: the only           *)
(* non-integer terms of the source, abs(row - 3.5) and abs(col - 3.5),     *)
(* occur as a sum of two, which is a whole number.                         *)
(***************************************************************************)
CHECKMATE == 100000
STALEMATE == 0
DEPTH == 3

materialScores(t) ==
  CASE t = "p" -> 100 [] t = "N" -> 320 [] t = "B" -> 390
    [] t = "R" -> 500 [] t = "Q" -> 900 [] OTHER -> 1000

whitePawnTable ==
  << <<60, 60, 60, 60, 60, 60, 60, 60>>,
     <<50, 50, 50, 50, 50, 50, 50, 50>>,
     <<10, 10, 20, 30, 30, 20, 10, 10>>,
     <<5, 5, 10, 25, 25, 10, 5, 5>>,
     <<0, 0, 0, 20, 20, 0, 0, 0>>,
     <<5, -5, -10, 0, 0, -10, -5, 5>>,
     <<5, 10, 10, -20, -20, 10, 10, 5>>,
     <<0, 0, 0, 0, 0, 0, 0, 0>> >>

\* whitePawnTable[::-1]
blackPawnTable == [r \in 1..8 |-> whitePawnTable[9 - r]]

\* [move for move in validMoves if move.pieceMoved[1] == t], from moves[i] on
RECURSIVE MovesOfType(_, _, _)
MovesOfType(moves, t, i) ==
  IF i > Len(moves) THEN <<>>
  ELSE (IF Type(moves[i].pieceMoved) = t THEN <<moves[i]>> ELSE <<>>)
       \o MovesOfType(moves, t, i + 1)

\* The threat loops of the evaluators over moves[i..]: for each move that
\* ends on an enemy of pieceColor, the target's material value times mul,
\* floor-divided by div
RECURSIVE Threats(_, _, _, _, _, _)
Threats(board, moves, pieceColor, mul, div, i) ==
  IF i > Len(moves) THEN 0
  ELSE (IF board[moves[i].endRow][moves[i].endCol] # "--"
           /\ Color(board[moves[i].endRow][moves[i].endCol]) # pieceColor
        THEN (materialScores(Type(board[moves[i].endRow][moves[i].endCol])) * mul) \div div
        ELSE 0)
       + Threats(board, moves, pieceColor, mul, div, i + 1)

\* The line-of-sight loops of evaluateBishop and evaluateQueen for one
\* direction d, from distance i on
RECURSIVE LineControl(_, _, _, _, _, _)
LineControl(board, row, col, d, pieceColor, i) ==
  IF i > 7 \/ ~OnBoard(row + d[1] * i, col + d[2] * i) THEN 0
  ELSE IF board[row + d[1] * i][col + d[2] * i] = "--"
  THEN 2 + LineControl(board, row, col, d, pieceColor, i + 1)
  ELSE IF Color(board[row + d[1] * i][col + d[2] * i]) = pieceColor THEN 0
  ELSE 30

\* The loop over directions[j..] of evaluateBishop and evaluateQueen
RECURSIVE LinesControl(_, _, _, _, _, _)
LinesControl(board, row, col, directions, pieceColor, j) ==
  IF j > Len(directions) THEN 0
  ELSE LineControl(board, row, col, directions[j], pieceColor, 1)
       + LinesControl(board, row, col, directions, pieceColor, j + 1)

\* 10 - abs(row - 3.5) - abs(col - 3.5)
centerBonus(row, col) == 10 - (Abs(2 * row - 7) + Abs(2 * col - 7)) \div 2

\* isOutpost
isOutpost(g, row, col, pieceColor) ==
  LET pawnDirection == IF pieceColor = "w" THEN -1 ELSE 1
  IN /\ 0 <= row + pawnDirection /\ row + pawnDirection < 8
     /\ \/ (0 <= col - 1 /\ col - 1 < 8
            /\ g.board[row + pawnDirection][col - 1] = Piece(pieceColor, "p"))
        \/ (0 <= col + 1 /\ col + 1 < 8
            /\ g.board[row + pawnDirection][col + 1] = Piece(pieceColor, "p"))
     /\ ~isSquareAttacked(g.board, g.whiteToMove, row, col)

\* min(abs(row - c[0]) + abs(col - c[1]) for c in centerSquares)
distanceToCenter(row, col) ==
  LET dRow == IF Abs(row - 3) < Abs(row - 4) THEN Abs(row - 3) ELSE Abs(row - 4)
      dCol == IF Abs(col - 3) < Abs(col - 4) THEN Abs(col - 3) ELSE Abs(col - 4)
  IN dRow + dCol

\* evaluateKnight, knightMoves being gs.knightValidMoves(row, col)
evaluateKnightWith(g, row, col, pieceColor, knightMoves) ==
  (4 - distanceToCenter(row, col)) * 3
  + Len(knightMoves) * 5
  + Threats(g.board, knightMoves, pieceColor, 1, 10, 1)
  + (IF isOutpost(g, row, col, pieceColor) THEN 15 ELSE 0)

evaluateKnight(g, row, col, pieceColor) ==
  evaluateKnightWith(g, row, col, pieceColor, knightValidMoves(g, row, col))

\* evaluateBishop, bishopMoves being the moves of bishops in validMoves
evaluateBishopWith(g, row, col, pieceColor, bishopMoves) ==
  Len(bishopMoves) * 5
  + LinesControl(g.board, row, col, bishopDirections, pieceColor, 1)
  + Threats(g.board, bishopMoves, pieceColor, 2, 1, 1)
  + centerBonus(row, col)

evaluateBishop(g, row, col, pieceColor, validMoves) ==
  evaluateBishopWith(g, row, col, pieceColor, MovesOfType(validMoves, "B", 1))

\* evaluateQueen, queenMoves being the moves of queens in validMoves
evaluateQueenWith(g, row, col, pieceColor, queenMoves) ==
  Len(queenMoves) * 5
  + LinesControl(g.board, row, col, rookDirections \o bishopDirections, pieceColor, 1)
  + Threats(g.board, queenMoves, pieceColor, 2, 1, 1)
  + centerBonus(row, col)

evaluateQueen(g, row, col, pieceColor, validMoves) ==
  evaluateQueenWith(g, row, col, pieceColor, MovesOfType(validMoves, "Q", 1))

\* evaluateRook, rookMoves being the moves of rooks in validMoves
evaluateRookWith(g, row, col, pieceColor, rookMoves) ==
  LET isOpenFile == \A r \in 0..7 : g.board[r][col] = "--"
                                     \/ Color(g.board[r][col]) # pieceColor
      isSemiOpenFile == \A r \in 0..7 : g.board[r][col] = "--"
      opponentBaseRank == IF pieceColor = "w" THEN 6 ELSE 1
  IN Len(rookMoves) * 5
     + (IF isOpenFile THEN 30 ELSE IF isSemiOpenFile THEN 15 ELSE 0)
     + (IF row = opponentBaseRank THEN 20 ELSE 0)
     + 15 * Cardinality({sq \in (0..7) \X (0..7) :
                            /\ g.board[sq[1]][sq[2]] = Piece(pieceColor, "R")
                            /\ (sq[1] = row \/ sq[2] = col)})
     + Threats(g.board, rookMoves, pieceColor, 2, 1, 1)

evaluateRook(g, row, col, pieceColor, validMoves) ==
  evaluateRookWith(g, row, col, pieceColor, MovesOfType(validMoves, "R", 1))

\* isEndgame: at most 20 pieces are left
isEndgame(g) ==
  Cardinality({sq \in (0..7) \X (0..7) : g.board[sq[1]][sq[2]] # "--"}) <= 20

\* evaluateKing.  The condition of the last if statement parses as
\* (A and B) if gs.whiteToMove else 'b', and 'b' is true.
evaluateKing(g, row, col, pieceColor) ==
  IF isEndgame(g)
  THEN (IF row = 0 \/ row = 7 THEN -10 ELSE 0)
       + (IF Abs(2 * col - 7) < 4 THEN -15 ELSE 0)
       + (IF (IF g.whiteToMove
              THEN g.board[row][col] = Piece(pieceColor, "K") /\ pieceColor = "w"
              ELSE TRUE)
          THEN 5 ELSE 0)
  ELSE 0

\* The body of the loops of scoreBoard for the square (row, col)
squareScore(g, validMoves, row, col) ==
  LET piece == g.board[row][col]
      pieceColor == Color(piece)
      pieceType == Type(piece)
      positionScore ==
        CASE pieceType = "p" -> (IF pieceColor = "w" THEN whitePawnTable[row + 1][col + 1]
                                 ELSE blackPawnTable[row + 1][col + 1])
          [] pieceType = "N" -> evaluateKnight(g, row, col, pieceColor)
          [] pieceType = "B" -> evaluateBishop(g, row, col, pieceColor, validMoves)
          [] pieceType = "R" -> evaluateRook(g, row, col, pieceColor, validMoves)
          [] pieceType = "Q" -> evaluateQueen(g, row, col, pieceColor, validMoves)
          [] OTHER -> evaluateKing(g, row, col, pieceColor)
  IN IF piece = "--" THEN 0
     ELSE IF pieceColor = "w" THEN materialScores(pieceType) + positionScore
     ELSE -materialScores(pieceType) - positionScore

\* The inner loop of scoreBoard from column col on
RECURSIVE scoreRow(_, _, _, _)
scoreRow(g, validMoves, row, col) ==
  IF col > 7 THEN 0
  ELSE squareScore(g, validMoves, row, col) + scoreRow(g, validMoves, row, col + 1)

\* The outer loop of scoreBoard from row on
RECURSIVE scoreRows(_, _, _)
scoreRows(g, validMoves, row) ==
  IF row > 7 THEN 0
  ELSE scoreRow(g, validMoves, row, 0) + scoreRows(g, validMoves, row + 1)

\* scoreBoard after its call of gs.validMoveIfCheck(), r being what the call
\* gave
scoreBoardWith(r) == [score |-> scoreRows(r.gs, r.moves, 0), gs |-> r.gs]

\* scoreBoard: the score it returns and the object after the call
scoreBoard(g) ==
  IF g.checkmate
  THEN [score |-> IF g.whiteToMove THEN -CHECKMATE ELSE CHECKMATE, gs |-> g]
  ELSE IF g.stalemate THEN [score |-> STALEMATE, gs |-> g]
  ELSE scoreBoardWith(validMoveIfCheck(g))

(***************************************************************************)
(* class BestMoveFinder (DB.py): the cache of chosen moves.  A string is   *)
(* modelled as the sequence of its parts.  self.data is a function from    *)
(* fingerprints to entries, an entry being a function from keys to lists   *)
(* of move strings.  The file best_moves.json is a record: kind tells      *)
(* whether the file is missing, empty, text that is no JSON, bytes that    *)
(* are no text, or the JSON text save_data wrote for the dictionary store. *)
(***************************************************************************)
\* chr(col + 97)
fileLetter(col) == <<"a", "b", "c", "d", "e", "f", "g", "h">>[col + 1]

\* str(n) for a digit n
digit(n) == <<"0", "1", "2", "3", "4", "5", "6", "7", "8", "9">>[n + 1]

\* ord(letter) - 97
fileIndex(letter) == CHOOSE col \in 0..7 : fileLetter(col) = letter

\* int(d) for a digit d
digitValue(d) == CHOOSE n \in 0..9 : digit(n) = d

\* square[1].upper() if square[0] == "w" else square[1].lower()
fenLetter(square) ==
  IF Color(square) = "w"
  THEN (CASE Type(square) = "p" -> "P" [] Type(square) = "N" -> "N"
          [] Type(square) = "B" -> "B" [] Type(square) = "R" -> "R"
          [] Type(square) = "Q" -> "Q" [] Type(square) = "K" -> "K")
  ELSE (CASE Type(square) = "p" -> "p" [] Type(square) = "N" -> "n"
          [] Type(square) = "B" -> "b" [] Type(square) = "R" -> "r"
          [] Type(square) = "Q" -> "q" [] Type(square) = "K" -> "k")

\* The inner loop of board_to_fen (lines 34-45) from column col on, with
\* empty_count squares counted
RECURSIVE fenRow(_, _, _)
fenRow(row, col, empty_count) ==
  IF col > 7
  THEN (IF empty_count > 0 THEN <<digit(empty_count)>> ELSE <<>>) \o <<"/">>
  ELSE IF row[col] = "--" THEN fenRow(row, col + 1, empty_count + 1)
  ELSE (IF empty_count > 0 THEN <<digit(empty_count)>> ELSE <<>>)
       \o <<fenLetter(row[col])>> \o fenRow(row, col + 1, 0)

\* The outer loop of board_to_fen (lines 32-45)
RECURSIVE fenRows(_, _)
fenRows(board, r) ==
  IF r > 7 THEN <<>> ELSE fenRow(board[r], 0, 0) \o fenRows(board, r + 1)

\* The castling field of board_to_fen (lines 50-55)
fenCastle(castleRights) ==
  LET castle == (IF castleRights.whiteKingSide THEN <<"K">> ELSE <<>>)
                \o (IF castleRights.whiteQueenSide THEN <<"Q">> ELSE <<>>)
                \o (IF castleRights.blackKingSide THEN <<"k">> ELSE <<>>)
                \o (IF castleRights.blackQueenSide THEN <<"q">> ELSE <<>>)
  IN <<" ">> \o (IF castle # <<>> THEN castle ELSE <<"-">>)

\* BestMoveFinder.board_to_fen
board_to_fen(board, whiteToMove, castleRights, enPassantTargetSquare) ==
  Front(fenRows(board, 0))
  \o (IF whiteToMove THEN <<" w">> ELSE <<" b">>)
  \o fenCastle(castleRights)
  \o (IF enPassantTargetSquare # <<>>
      THEN <<" ", fileLetter(enPassantTargetSquare[2]), digit(8 - enPassantTargetSquare[1])>>
      ELSE <<" -">>)
  \o <<" 0 1">>

\* BestMoveFinder.fen_to_custom_notation
fen_to_custom_notation(startSq, endSq, pieceMoved) ==
  <<pieceMoved, ":", fileLetter(startSq[2]), digit(8 - startSq[1]),
    "->", fileLetter(endSq[2]), digit(8 - endSq[1])>>

\* BestMoveFinder.custom_notation_to_fen_move
custom_notation_to_fen_move(move) ==
  [startSq |-> <<8 - digitValue(move[4]), fileIndex(move[3])>>,
   endSq |-> <<8 - digitValue(move[7]), fileIndex(move[6])>>,
   pieceMoved |-> move[1]]

\* The dictionary {}
emptyData == <<>>

\* add_best_move lines 83-86: self.data after the record of move_notation
\* for fen, d being self.data before
recordMove(d, fen, move_notation) ==
  IF fen \in DOMAIN d
  THEN [d EXCEPT ![fen] = [@ EXCEPT !["best_moves"] = Append(@, move_notation)]]
  ELSE [f \in DOMAIN d \cup {fen} |->
          IF f = fen THEN [best_moves |-> <<move_notation>>] ELSE d[f]]

\* BestMoveFinder.add_best_move: self.data after the call, d being self.data
\* before
add_best_move(d, board, whiteToMove, castleRights, enPassantTargetSquare, startSq, endSq, pieceMoved) ==
  recordMove(d,
             board_to_fen(board, whiteToMove, castleRights, enPassantTargetSquare),
             fen_to_custom_notation(startSq, endSq, pieceMoved))

\* BestMoveFinder.save_data: the file after json.dump(self.data)
save_data(d) == [kind |-> "json", store |-> d]

\* A file that is not there, one of kind "empty", "text" or "bytes"
noStore(kind) == [kind |-> kind, store |-> emptyData]

\* BestMoveFinder.load_data: what the constructor may give for the file f.
\* Text that is no JSON raises json.JSONDecodeError, which is caught.  Bytes
\* that are no text in the encoding of the platform make f.read() raise
\* UnicodeDecodeError, which is not caught; where every byte is text, the
\* text is no JSON.
load_data(f) ==
  CASE f.kind = "missing" -> {[error |-> FALSE, data |-> emptyData]}
    [] f.kind = "empty" -> {[error |-> FALSE, data |-> emptyData]}
    [] f.kind = "text" -> {[error |-> FALSE, data |-> emptyData]}
    [] f.kind = "bytes" -> {[error |-> FALSE, data |-> emptyData],
                            [error |-> TRUE, data |-> emptyData]}
    [] f.kind = "json" -> {[error |-> FALSE, data |-> f.store]}

\* BestMoveFinder.get_best_move: self.data.get(fen, None), None being <<>>
\* and an entry the one-element sequence of it
get_best_move(d, board, whiteToMove, castleRights, enPassantTargetSquare) ==
  LET fen == board_to_fen(board, whiteToMove, castleRights, enPassantTargetSquare)
  IN IF fen \in DOMAIN d THEN <<d[fen]>> ELSE <<>>

(***************************************************************************)
(* The game loop of main(), with both sides played by humans.  The moves   *)
(* the players click are inputs: the k-th move of a game is the k-th entry *)
(* of one of the lines below (a move ID, as Move.moveID), and after the    *)
(* line at most MaxFree further moves are chosen freely.  The undo key may *)
(* be pressed between any two moves, at most MaxUndo times in a game.  In  *)
(* every case the move applied is one of gs.validMoves, as handleClick     *)
(* requires, so every state of the model is a state of the program.  One   *)
(* event is handled per frame: the moves are generated again (lines        *)
(* 642-648) before the next click or key is handled.                       *)
(***************************************************************************)
Lines ==
  << \* 1.d4 e6 2.Qd2 Bb4 3.a4 Nc6 4.a5 Nxd4 5.a6 Nxc2+
     <<6343, 1424, 7363, 541, 6040, 122, 4030, 2243, 3020, 4362>>,
     \* 1.Nf3 Nf6 2.g3 g6 3.Bg2 Bg7 4.O-O O-O
     <<7655, 625, 6656, 1626, 7566, 516, 7476, 406>>,
     \* 1.d4 d5 2.Nc3 Nc6 3.Bf4 Bf5 4.Qd2 Qd7 5.O-O-O O-O-O
     <<6343, 1333, 7152, 122, 7245, 235, 7363, 313, 7472, 402>>,
     \* 1.e4 a6 2.e5 d5 3.exd6 e.p.
     <<6444, 1020, 4434, 1333, 3423>>,
     \* 1.b4 a5 2.bxa5 b6 3.axb6 Ba6 4.b7 Bb5 5.bxa8=Q
     <<6141, 1030, 4130, 1121, 3021, 220, 2111, 2031, 1100>>,
     \* 1.e4 f6 2.Qh5+ g6, and, when 2...g6 is taken back, 2...a6 3.Qxe8
     <<6444, 1525, 7337, 1626, 1020, 3704>>,
     \* 1.a4 a5 2.Ra3 Ra6 3.Ra1 Ra8
     <<6040, 1030, 7050, 20, 5070, 2000>>,
     \* 1.e4 d5 2.exd5 e6 3.dxe6 Bxe6 4.Nf3 Bf5 5.Bd3 Nf6 6.a3 Bd6 7.a4 Kd7
     \* 8.a5 Re8+
     <<6444, 1333, 4433, 1424, 3324, 224, 7655, 2435, 7553, 625, 6050, 523,
       5040, 413, 4030, 704>>,
     \* 1.e4 d5 2.exd5 e5 3.dxe6 e.p. Bxe6 4.Nc3 Qd7 5.Ne4 a6 6.Qe2 Bd5
     \* 7.Nf6++
     <<6444, 1333, 4433, 1434, 3324, 224, 7152, 313, 5244, 1020, 7364, 2433,
       4425>>,
     \* 1.e4 d5 2.exd5 e5 3.dxe6 e.p. Bxe6 4.Nc3 a6 5.Ne4 a5 6.Qe2 Bd5
     \* 7.Nf6#, a double check
     <<6444, 1333, 4433, 1434, 3324, 224, 7152, 1020, 5244, 2030, 7364, 2433,
       4425>>,
     \* 1.f3 e5 2.g4 Qh4#
     <<6555, 1434, 6646, 347>>,
     \* 1.Nf3 Nf6 2.Ng1 Ng8 3.Nf3 Nf6
     <<7655, 625, 5576, 2506, 7655, 625>>,
     \* 1.d4 d5 2.Nc3 Bf5 3.Bf4 Bxc2 4.Qd2 Bg6
     <<6343, 1333, 7152, 235, 7245, 3562, 7363, 6226>>,
     \* 1.a4 b5 2.axb5 a6 3.bxa6 Bb7 4.a7 Bc6 5.axb8=Q Bd5 6.Rxa8
     <<6040, 1131, 4031, 1020, 3120, 211, 2010, 1122, 1001, 2233, 7000>> >>

\* The games whose last position a search is run on
SearchLines ==
  << \* 1.Nc3 a6 2.Ne4 a5 3.Nh3 a4 4.Nf4 h6 5.Nd5 h5 6.e3 h4 7.Nf6+
     <<7152, 1020, 5244, 2030, 7657, 3040, 5745, 1727, 4533, 2737, 6454,
       3747, 4425>>,
     \* 1.e3 a5 2.Qh5 g6 3.d3 c5 4.a3 Qb6 5.Qd5 Qb4+
     <<6454, 1030, 7337, 1626, 6353, 1232, 6050, 321, 3733, 2141>>,
     \* a game that ends with the white king on f6, a white rook on d5 and
     \* white pawns on a2, h2 and h3 against the black king on e8, black to
     \* move
     <<6454, 1737, 7337, 737, 7657, 3757, 6657, 120, 7520, 1120, 6151,
       1424, 7150, 550, 7250, 347, 5032, 4765, 7465, 625, 3210, 10,
       6555, 2546, 5546, 2030, 4655, 211, 5546, 1177, 7077, 3040, 5140,
       1040, 6242, 4042, 6343, 4243, 5443, 2434, 4334, 1323, 3423, 1223,
       7773, 2333, 7333, 1636, 4636, 1525, 3625>> >>

\* The games played when the game is started with the setting "Black
\* First": the list of moves the first click is looked up in was generated
\* for white, so the first two moves are white's
BlackFirstLines ==
  << \* e2-e4, d2-d4, then e7-e5, d4xe5, d7-d6, e5xd6, Bf8xd6, Qd1-d2
     <<6444, 6343, 1434, 4334, 1323, 3423, 523, 7363>>,
     \* Ng1-f3, g2-g3, then e7-e5, Bf1-g2, e5-e4, O-O, e4xf3, Bg2xf3
     <<7655, 6656, 1434, 7566, 3444, 7476, 4455, 6655>> >>

\* The most moves chosen freely after a line
MaxFree == 1

\* The most presses of the undo key in one game
MaxUndo == 2

\* How often findBestMove is called on a position in one run of the program
MaxSearches == 2

\* How often the program is started
MaxRuns == 2

VARIABLES
  gs,          \* the GameState object of main()
  line,        \* which of Lines the players follow
  clicks,      \* how many moves the players have made
  undos,       \* how often the undo key has been pressed
  playerOne,   \* main(): white is played by a human
  playerTwo,   \* main(): black is played by a human
  pc,          \* where the search is: "idle", "search", "done", "compared",
               \* "failed", "cached", "crashed" or "moved"
  alg,         \* the search function that runs: "AlphaBeta" or "NegaMax"
  sgs,         \* the GameState object the search works on
  stack,       \* the calls of the search function that have not returned
  nextMove,    \* SmortPart.nextMove
  returnQueue, \* the queue findBestMove puts its result in
  rootMoves,   \* the list of moves findBestMove was given
  results,     \* what the top-level calls returned and selected
  file,        \* the file best_moves.json
  data,        \* jsonStorage.data of main()
  recorded,    \* the calls of add_best_move so far: fingerprint and move string
  runs,        \* how often the program has been started
  searches     \* how often findBestMove has been called since the start

search == <<pc, alg, sgs, stack, nextMove, returnQueue, rootMoves, results>>

cache == <<file, data, recorded, runs, searches>>

vars == <<gs, line, clicks, undos, playerOne, playerTwo, search, cache>>

\* Python's None, for a value that is otherwise a one-element sequence
None == <<>>

\* The line the players follow
Script == (Lines \o SearchLines \o BlackFirstLines)[line]

humanTurn == (gs.whiteToMove /\ playerOne) \/ (~gs.whiteToMove /\ playerTwo)

\* gs.validMoves[i] is a move the players may make next
Clickable(i) ==
  IF clicks < Len(Script)
  THEN gs.validMoves[i].moveID = Script[clicks + 1]
  ELSE clicks < Len(Script) + MaxFree

\* No call of findBestMove has been made
NoCall ==
  /\ alg = "AlphaBeta"
  /\ sgs = GameState
  /\ stack = <<>>
  /\ nextMove = None
  /\ returnQueue = <<>>
  /\ rootMoves = <<>>
  /\ results = <<>>

\* No search runs
Idle == pc = "idle" /\ NoCall

\* main() line 543 when there is no file best_moves.json
NoCache ==
  /\ file = noStore("missing")
  /\ data = emptyData
  /\ recorded = <<>>
  /\ runs = 1
  /\ searches = 0

Init ==
  /\ gs = GameState
  /\ line \in 1..Len(Lines)
  /\ clicks = 0
  /\ undos = 0
  /\ playerOne = TRUE
  /\ playerTwo = TRUE
  /\ Idle
  /\ NoCache

\* handleClick, for the second click of a pair that names gs.validMoves[i]
\* (main() lines 587-590 and handleClick lines 127-146)
HandleClick ==
  /\ pc = "idle"
  /\ ~gs.gameOver
  /\ humanTurn
  /\ ~gs.moveMade
  /\ \E i \in 1..Len(gs.validMoves) :
        /\ Clickable(i)
        /\ LET g1 == makeMove(gs, gs.validMoves[i])
               g2 == IF threeMoveRule(g1)
                     THEN [g1 EXCEPT !.threeMoveRepetition = TRUE, !.gameOver = TRUE]
                     ELSE g1
           IN gs' = scanPinsAndChecks([g2 EXCEPT !.moveMade = TRUE])
  /\ clicks' = clicks + 1
  /\ UNCHANGED <<line, undos, playerOne, playerTwo, search, cache>>

\* main() lines 592-595: the key z
UndoKey ==
  /\ pc = "idle"
  /\ ~gs.gameOver
  /\ ~gs.moveMade
  /\ Len(gs.moveLog) > 0
  /\ undos < MaxUndo
  /\ gs' = [undoMove(gs) EXCEPT !.moveMade = TRUE]
  /\ undos' = undos + 1
  /\ UNCHANGED <<line, clicks, playerOne, playerTwo, search, cache>>

\* main() lines 643-648, r being what gs.validMoveIfCheck() gave: an empty
\* list ends the game (handleTerminalState)
refreshed(r) ==
  IF Len(r.moves) = 0
  THEN [r.gs EXCEPT !.validMoves = r.moves, !.gameOver = TRUE]
  ELSE [r.gs EXCEPT !.validMoves = r.moves, !.moveMade = FALSE]

\* RefreshValidMoves run by the loop while the process of the search runs
RefreshValidMovesWhileComputing ==
  /\ pc \in {"idle", "search"}
  /\ ~gs.gameOver
  /\ gs.moveMade
  /\ gs' = refreshed(validMoveIfCheck(gs))
  /\ UNCHANGED <<line, clicks, undos, playerOne, playerTwo, search, cache>>

\* main() lines 642-648: the moves are generated again after a move or an undo
RefreshValidMoves ==
  /\ pc = "idle"
  /\ ~gs.gameOver
  /\ gs.moveMade
  /\ gs' = refreshed(validMoveIfCheck(gs))
  /\ UNCHANGED <<line, clicks, undos, playerOne, playerTwo, search, cache>>

Next == HandleClick \/ UndoKey \/ RefreshValidMoves

Spec == Init /\ [][Next]_vars

\* main() lines 565-566 with WhiteFirst = False: the object GameState()
\* gives, with whiteToMove set to False after the constructor has generated
\* the moves
InitBlackFirst ==
  /\ gs = [GameState EXCEPT !.whiteToMove = FALSE]
  /\ line \in (Len(Lines) + Len(SearchLines) + 1)
               ..(Len(Lines) + Len(SearchLines) + Len(BlackFirstLines))
  /\ clicks = 0
  /\ undos = 0
  /\ playerOne = TRUE
  /\ playerTwo = TRUE
  /\ Idle
  /\ NoCache

SpecBlackFirst == InitBlackFirst /\ [][Next]_vars


(***************************************************************************)
(* The search.  findBestMove is called, as a function of a position and   *)
(* its list of moves, on the position a game between two human players    *)
(* has reached when the last move of a line of SearchLines has been        *)
(* clicked, as main() calls it on the move of a computer player: in a      *)
(* process of its own, on a copy sgs of the GameState object.  Each        *)
(* call of the recursive search function is a frame of stack: the list of  *)
(* moves it was given, the index k of the move its loop is at, and its     *)
(* local variables.  One step of the model is one call or one return.      *)
(* When findMoveNegaMaxAlphaBeta has returned, findMoveNegaMax is run on   *)
(* the same position and the same list of moves.                           *)
(***************************************************************************)
Max(a, b) == IF a >= b THEN a ELSE b

\* findMoveNegaMaxAlphaBeta line 293, findMoveNegaMax line 274: the call
\* returns the score of the board at once
returnsAtOnce(a, g, depth) ==
  \/ depth = 0
  \/ a = "AlphaBeta" /\ (g.checkmate \/ g.stalemate)

\* The frame of a call of the search function a, r being the list of moves
\* gs.validMoveIfCheck() gave for it and the position it left
called(a, r, depth, alpha, beta, turnMultiplier) ==
  [validMoves     |-> r.moves,
   k              |-> 1,
   depth          |-> depth,
   alpha          |-> alpha,
   beta           |-> beta,
   turnMultiplier |-> turnMultiplier,
   maxScore       |-> -CHECKMATE,
   leaf           |-> returnsAtOnce(a, r.gs, depth)]

\* The top-level call of findBestMove line 216
topLevel(a, r) ==
  called(a, r, DEPTH, -CHECKMATE, CHECKMATE, IF r.gs.whiteToMove THEN 1 ELSE -1)

\* main() lines 608-611, r being what gs.validMoveIfCheck() gave: with no
\* move the game is over
aiTurn(r) ==
  IF Len(r.moves) = 0 THEN [r.gs EXCEPT !.gameOver = TRUE] ELSE r.gs

\* findBestMove lines 205-209, best_move_data being the entry the cache
\* holds for the position: the move is made from the string under the key
\* "best_move" and put in the queue.  An entry without that key raises
\* KeyError, which ends the process with nothing in the queue.
cacheHit(best_move_data, board) ==
  IF "best_move" \in DOMAIN best_move_data
  THEN /\ pc' = "cached"
       /\ returnQueue' =
            <<<<Move(custom_notation_to_fen_move(best_move_data["best_move"]).startSq,
                    custom_notation_to_fen_move(best_move_data["best_move"]).endSq,
                    board, FALSE, FALSE)>>>>
  ELSE /\ pc' = "failed"
       /\ returnQueue' = <<>>

\* findBestMove lines 203-216, best_move_data being what get_best_move gave
\* and r what gs.validMoveIfCheck() gave
lookedUp(best_move_data, r) ==
  IF best_move_data # None
  THEN /\ cacheHit(best_move_data[1], r.gs.board)
       /\ stack' = <<>>
  ELSE /\ pc' = "search"
       /\ returnQueue' = <<>>
       /\ stack' = <<topLevel("AlphaBeta", r)>>

\* main() lines 608-620 and findBestMove lines 196-216, r being what
\* gs.validMoveIfCheck() gave.  The process works on copies of gs and of
\* jsonStorage.
findBestMove(r) ==
  /\ gs' = aiTurn(r)
  /\ IF Len(r.moves) = 0
     THEN UNCHANGED <<search, searches>>
     ELSE /\ searches' = searches + 1
          /\ alg' = "AlphaBeta"
          /\ sgs' = r.gs
          /\ nextMove' = None
          /\ rootMoves' = r.moves
          /\ results' = <<>>
          /\ lookedUp(get_best_move(data, r.gs.board, r.gs.whiteToMove,
                                    r.gs.castleRights, r.gs.enPassantTargetSquare), r)

\* The computer is to move and no process runs: the first time, or again
\* in a later frame on the same position
FindBestMove ==
  /\ pc \in {"idle", "compared", "failed", "cached"}
  /\ searches < MaxSearches
  /\ ~gs.gameOver
  /\ gs.moveMade
  /\ clicks = Len(Script)
  /\ findBestMove(validMoveIfCheck(gs))
  /\ UNCHANGED <<line, clicks, undos, playerOne, playerTwo>>
  /\ UNCHANGED <<file, data, recorded, runs>>

\* The loop body up to the recursive call, f being the calling frame:
\* findMoveNegaMaxAlphaBeta lines 298-300, findMoveNegaMax lines 280-282
recursiveCall(f, r) ==
  /\ sgs' = r.gs
  /\ stack' = Append(stack, called(alg, r, f.depth - 1, -f.beta, -f.alpha,
                                    -f.turnMultiplier))

Descend ==
  /\ pc = "search"
  /\ ~stack[Len(stack)].leaf
  /\ stack[Len(stack)].k <= Len(stack[Len(stack)].validMoves)
  /\ recursiveCall(stack[Len(stack)],
        validMoveIfCheck(makeMove(sgs, stack[Len(stack)].validMoves[stack[Len(stack)].k])))
  /\ UNCHANGED <<gs, line, clicks, undos, playerOne, playerTwo, cache>>
  /\ UNCHANGED <<pc, alg, nextMove, returnQueue, rootMoves, results>>

\* What a call that returns at once returns, sb being what scoreBoard(gs)
\* gave and the position it left
scoreReturned(f, sb) == [value |-> f.turnMultiplier * sb.score, gs |-> sb.gs]

\* What the call of frame f returns, and the position it leaves
returned(f, g) ==
  IF f.leaf THEN scoreReturned(f, scoreBoard(g))
            ELSE [value |-> f.maxScore, gs |-> g]

\* The rest of the loop body, for the frame p whose recursive call gave
\* score: findMoveNegaMaxAlphaBeta lines 303-310, findMoveNegaMax lines
\* 283-286
loopBodyEnd(a, p, score) ==
  [p EXCEPT !.maxScore = Max(p.maxScore, score),
            !.alpha    = IF a = "AlphaBeta" THEN Max(p.alpha, score) ELSE p.alpha,
            !.k        = IF a = "AlphaBeta" /\ Max(p.alpha, score) >= p.beta
                         THEN Len(p.validMoves) + 1
                         ELSE p.k + 1]

\* nextMove after the loop body of frame p
selected(p, score) ==
  IF score > p.maxScore /\ p.depth = DEPTH THEN <<p.validMoves[p.k]>> ELSE nextMove

\* A call below the top level returns ret to the frame p
returnToCaller(p, ret) ==
  /\ sgs' = undoMove(ret.gs)
  /\ stack' = Append(SubSeq(stack, 1, Len(stack) - 2), loopBodyEnd(alg, p, -ret.value))
  /\ nextMove' = selected(p, -ret.value)
  /\ UNCHANGED <<pc, alg, returnQueue, rootMoves, results, cache>>

\* findBestMove lines 226-230: the move m the search chose is recorded for
\* the position g the search left, in the process's copy of jsonStorage,
\* and the copy is saved to the file
saved(g, m) ==
  /\ file' = save_data(add_best_move(data, g.board, g.whiteToMove, g.castleRights,
                                     g.enPassantTargetSquare,
                                     <<m.startRow, m.startCol>>,
                                     <<m.endRow, m.endCol>>, m.pieceMoved))
  /\ recorded' = Append(recorded,
       [fen  |-> board_to_fen(g.board, g.whiteToMove, g.castleRights,
                              g.enPassantTargetSquare),
        move |-> fen_to_custom_notation(<<m.startRow, m.startCol>>,
                                        <<m.endRow, m.endCol>>, m.pieceMoved)])

\* The top-level call returns ret: findBestMove lines 222-233 put nextMove
\* in the queue and record it, or put None when there is none
returnToTop(ret) ==
  /\ sgs' = ret.gs
  /\ stack' = <<>>
  /\ results' = Append(results, [alg |-> alg, score |-> ret.value, nextMove |-> nextMove])
  /\ pc' = IF alg = "AlphaBeta" THEN "done" ELSE "compared"
  /\ returnQueue' = IF alg = "AlphaBeta" THEN Append(returnQueue, nextMove) ELSE returnQueue
  /\ IF alg = "AlphaBeta" /\ nextMove # None
     THEN saved(ret.gs, nextMove[1])
     ELSE UNCHANGED <<file, recorded>>
  /\ UNCHANGED <<alg, nextMove, rootMoves, data, runs, searches>>

Return ==
  /\ pc = "search"
  /\ stack[Len(stack)].leaf \/ stack[Len(stack)].k > Len(stack[Len(stack)].validMoves)
  /\ IF Len(stack) = 1
     THEN returnToTop(returned(stack[1], sgs))
     ELSE returnToCaller(stack[Len(stack) - 1], returned(stack[Len(stack)], sgs))
  /\ UNCHANGED <<gs, line, clicks, undos, playerOne, playerTwo>>

\* findMoveNegaMax is called on the position and the list of moves
\* findBestMove was given
FindMoveNegaMax ==
  /\ pc = "done"
  /\ pc' = "search"
  /\ alg' = "NegaMax"
  /\ sgs' = gs
  /\ stack' = <<topLevel("NegaMax", [moves |-> rootMoves, gs |-> gs])>>
  /\ nextMove' = None
  /\ UNCHANGED <<gs, line, clicks, undos, playerOne, playerTwo, cache>>
  /\ UNCHANGED <<returnQueue, rootMoves, results>>

\* What best_moves.json may be when the program is started for the first
\* time: any file the program has not written
StartFiles == {noStore(kind) : kind \in {"missing", "empty", "text", "bytes"}}

\* main() line 543, loaded being what load_data gave: an error it raises
\* ends the program.  jsonStorageData is jsonStorage.data and at is where
\* the program is after the line.
BestMoveFinder(jsonStorageData, at, loaded) ==
  /\ jsonStorageData = loaded.data
  /\ at = IF loaded.error THEN "crashed" ELSE "idle"

InitSearch ==
  /\ gs = GameState
  /\ line \in (Len(Lines) + 1)..(Len(Lines) + Len(SearchLines))
  /\ clicks = 0
  /\ undos = 0
  /\ playerOne = TRUE
  /\ playerTwo = TRUE
  /\ NoCall
  /\ file \in StartFiles
  /\ \E loaded \in load_data(file) : BestMoveFinder(data, pc, loaded)
  /\ recorded = <<>>
  /\ runs = 1
  /\ searches = 0

\* The program is closed after a call of findBestMove and started again
\* with the file as it is: main() lines 528-553
StartAgain ==
  /\ pc \in {"compared", "failed", "cached"}
  /\ runs < MaxRuns
  /\ runs' = runs + 1
  /\ searches' = 0
  /\ gs' = GameState
  /\ line' \in (Len(Lines) + 1)..(Len(Lines) + Len(SearchLines))
  /\ clicks' = 0
  /\ undos' = 0
  /\ alg' = "AlphaBeta"
  /\ sgs' = GameState
  /\ stack' = <<>>
  /\ nextMove' = None
  /\ returnQueue' = <<>>
  /\ rootMoves' = <<>>
  /\ results' = <<>>
  /\ \E loaded \in load_data(file) : BestMoveFinder(data', pc', loaded)
  /\ UNCHANGED <<playerOne, playerTwo, file, recorded>>

\* main() lines 620-633: the process has ended and the move it put in the
\* queue is taken out and made on the position of the game
MakeAIMove ==
  /\ pc = "compared"
  /\ returnQueue # <<>>
  /\ returnQueue[1] # None
  /\ LET g1 == makeMove(gs, returnQueue[1][1])
         g2 == IF threeMoveRule(g1)
               THEN [g1 EXCEPT !.threeMoveRepetition = TRUE, !.gameOver = TRUE]
               ELSE g1
     IN gs' = scanPinsAndChecks([g2 EXCEPT !.moveMade = TRUE])
  /\ pc' = "moved"
  /\ returnQueue' = Tail(returnQueue)
  /\ UNCHANGED <<line, clicks, undos, playerOne, playerTwo, cache>>
  /\ UNCHANGED <<alg, sgs, stack, nextMove, rootMoves, results>>

NextSearch ==
  \/ HandleClick
  \/ RefreshValidMoves
  \/ FindBestMove
  \/ Descend
  \/ Return
  \/ FindMoveNegaMax
  \/ StartAgain
  \/ MakeAIMove

SpecSearch == InitSearch /\ [][NextSearch]_vars


(***************************************************************************)
(* Properties                                                              *)
(***************************************************************************)
\* The moves of the list generated for the position gs is in
Generated == IF gs.moveMade THEN {} ELSE {gs.validMoves[i] : i \in 1..Len(gs.validMoves)}

Rights == {"whiteKingSide", "whiteQueenSide", "blackKingSide", "blackQueenSide"}

\* C1: for every generated move m of every reachable position, makeMove(m)
\* followed by undoMove() leaves the board, the side to move, the en-passant
\* target and both king locations as they were.
C1_MakeUndoRestores ==
  \A m \in Generated :
    LET g == undoMove(makeMove(gs, m))
    IN /\ g.board = gs.board
       /\ g.whiteToMove = gs.whiteToMove
       /\ g.enPassantTargetSquare = gs.enPassantTargetSquare
       /\ g.whiteKingLocation = gs.whiteKingLocation
       /\ g.blackKingLocation = gs.blackKingLocation

\* An en-passant capture has been made, taken back, and is generated again
C1_Witness ==
  /\ undos > 0
  /\ \E m \in Generated : m.isEnPassantMove

\* C2: makeMove(m) followed by undoMove() leaves the four castling rights as
\* they were, also in positions reached after an undo.
C2_MakeUndoRestoresRights ==
  \A m \in Generated : undoMove(makeMove(gs, m)).castleRights = gs.castleRights

\* The mover's king is attacked in the position makeMove(g, m) gives
LeavesKingAttacked(g, m) ==
  LET g1 == makeMove(g, m)
      king == IF g.whiteToMove THEN g1.whiteKingLocation ELSE g1.blackKingLocation
  IN isSquareAttacked(g1.board, g.whiteToMove, king[1], king[2])

\* C3: in a position reached by applying generated moves, each followed by
\* the scan for pins and checks, no generated move leaves the mover's own
\* king attacked.
C3_NoMoveLeavesKingAttacked ==
  undos = 0 => \A m \in Generated : ~LeavesKingAttacked(gs, m)

\* The parts of the position g that the search is to leave as they are in h
SamePosition(g, h) ==
  /\ g.board = h.board
  /\ g.whiteToMove = h.whiteToMove
  /\ g.castleRights = h.castleRights
  /\ g.enPassantTargetSquare = h.enPassantTargetSquare
  /\ g.whiteKingLocation = h.whiteKingLocation
  /\ g.blackKingLocation = h.blackKingLocation
  /\ g.moveLog = h.moveLog
  /\ g.castleRightsLog = h.castleRightsLog
  /\ g.enPassantTargetSquareLog = h.enPassantTargetSquareLog

\* C4: when the top-level call of findMoveNegaMaxAlphaBeta has returned, the
\* board, the side to move, the castling rights, the en-passant target, both
\* king locations and the three logs of the position it searched are as they
\* were before the call, and during the search the moves made and not yet
\* undone are those of the calls that have not returned.
C4_SearchLeavesPositionUnchanged ==
  /\ pc = "search" => Len(sgs.moveLog) = Len(gs.moveLog) + Len(stack) - 1
  /\ pc = "done" => SamePosition(sgs, gs)

Squares == (0..7) \X (0..7)

\* C5: the board holds exactly one king of each colour and no applied move
\* captured a king.
C5_KingsNeverCaptured ==
  /\ Cardinality({sq \in Squares : gs.board[sq[1]][sq[2]] = "wK"}) = 1
  /\ Cardinality({sq \in Squares : gs.board[sq[1]][sq[2]] = "bK"}) = 1
  /\ \A k \in 1..Len(gs.moveLog) : Type(gs.moveLog[k].pieceCaptured) # "K"

\* C8: a move made never turns a castling right from false to true.
C8_RightsNeverRegained ==
  [][Len(gs'.moveLog) = Len(gs.moveLog) + 1
       => \A r \in Rights : gs'.castleRights[r] => gs.castleRights[r]]_vars

\* A rook has left its corner and come back, and the right is still cleared
C8_Witness ==
  /\ gs.board[7][0] = "wR"
  /\ gs.board[7][4] = "wK"
  /\ ~gs.castleRights.whiteQueenSide
  /\ gs.castleRights.whiteKingSide
  /\ Len(gs.moveLog) > 0
  /\ Last(gs.moveLog).pieceMoved = "wR"
  /\ Last(gs.moveLog).endRow = 7
  /\ Last(gs.moveLog).endCol = 0

IsDoublePush(m) == Type(m.pieceMoved) = "p" /\ Abs(m.startRow - m.endRow) = 2

\* C9: the en-passant target is the square skipped by the two-square pawn
\* advance that is the last move of moveLog, and it is empty when the last
\* move is anything else or when moveLog is empty.
C9_EnPassantTarget ==
  IF Len(gs.moveLog) > 0 /\ IsDoublePush(Last(gs.moveLog))
  THEN gs.enPassantTargetSquare =
         <<(Last(gs.moveLog).startRow + Last(gs.moveLog).endRow) \div 2,
           Last(gs.moveLog).endCol>>
  ELSE gs.enPassantTargetSquare = <<>>

\* An undo has brought back the en-passant target of the move before
C9_Witness ==
  /\ undos > 0
  /\ gs.moveMade
  /\ gs.enPassantTargetSquare # <<>>
  /\ Len(gs.moveLog) < clicks

\* C10: undoMove on an empty moveLog changes nothing.
C10_UndoOnEmptyLogIsNoOp ==
  Len(gs.moveLog) = 0 => undoMove(gs) = gs

\* The whole game has been taken back
C10_Witness ==
  /\ Len(gs.moveLog) = 0
  /\ undos > 0

\* C6: for the same position and depth, findMoveNegaMaxAlphaBeta with the
\* full window returns the same root score and selects the same root move as
\* findMoveNegaMax.
C6_AlphaBetaEqualsNegaMax ==
  pc = "compared" =>
    /\ results[1].score = results[2].score
    /\ results[1].nextMove = results[2].nextMove

\* C7: findBestMove puts None in the queue only when the list of moves it
\* was given is empty; given a list that is not empty it puts one of the
\* moves of that list.
C7_NoMoveOnlyWhenTerminal ==
  pc = "done" =>
    /\ returnQueue[1] = None => Len(rootMoves) = 0
    /\ Len(rootMoves) > 0 =>
         \E i \in 1..Len(rootMoves) : returnQueue[1] = <<rootMoves[i]>>

\* C11: the list of moves generated for a freshly constructed GameState holds
\* exactly 20 moves, no two of them alike.
C11_InitialPositionHas20Moves ==
  (Len(gs.moveLog) = 0 /\ undos = 0) =>
    /\ Len(gs.validMoves) = 20
    /\ Cardinality({gs.validMoves[i].moveID : i \in 1..Len(gs.validMoves)}) = 20

\* The freshly constructed GameState, its moves generated, nothing clicked
C11_Witness ==
  /\ clicks = 0
  /\ gs.moveLog = <<>>
  /\ gs.validMoves # <<>>
  /\ gs.board = InitialBoard

\* C12: after the pawn move e2-e4 in the initial position it is black to
\* move, the en-passant target is e3 (row 5, column 4) and all four castling
\* rights are true.
C12_AfterE2E4 ==
  (undos = 0 /\ Len(gs.moveLog) = 1 /\ gs.moveLog[1].moveID = 6444) =>
    /\ ~gs.whiteToMove
    /\ gs.enPassantTargetSquare = <<5, 4>>
    /\ gs.castleRights = CastleRights(TRUE, TRUE, TRUE, TRUE)

\* The pawn has gone from e2 to e4 in the initial position
C12_Witness ==
  /\ undos = 0
  /\ Len(gs.moveLog) = 1
  /\ gs.moveLog[1].pieceMoved = "wp"
  /\ gs.moveLog[1].startRow = 6 /\ gs.moveLog[1].startCol = 4
  /\ gs.board[4][4] = "wp" /\ gs.board[6][4] = "--"

\* White is to move with its king on e1, a black rook on e8 and nothing
\* else on the e-file, and the moves have been generated for the position
RookChecksOnEFile ==
  /\ ~gs.moveMade
  /\ gs.whiteToMove
  /\ gs.whiteKingLocation = <<7, 4>>
  /\ gs.board[7][4] = "wK"
  /\ gs.board[0][4] = "bR"
  /\ \A r \in 1..6 : gs.board[r][4] = "--"

\* C13: with white to move, the white king on e1, a black rook on e8 and no
\* other piece on the e-file, inCheck() is true and no king-side castling
\* move is generated for white.
C13_NoCastlingOutOfCheck ==
  RookChecksOnEFile =>
    /\ inCheck(gs)
    /\ \A i \in 1..Len(gs.validMoves) :
          ~(gs.validMoves[i].isCastleMove /\ gs.validMoves[i].endCol = 6)

\* The position of C13 with f1 and g1 empty, the rook on h1 and the white
\* king-side right held
C13_Witness ==
  /\ RookChecksOnEFile
  /\ gs.board[7][5] = "--" /\ gs.board[7][6] = "--"
  /\ gs.board[7][7] = "wR"
  /\ gs.castleRights.whiteKingSide
  /\ gs.validMoves # <<>>

Sign(x) == IF x > 0 THEN 1 ELSE IF x < 0 THEN -1 ELSE 0

\* The squares strictly between two squares of a rank, file or diagonal are
\* empty
ClearBetween(board, fr, fc, r, c) ==
  \A k \in 1..7 :
    (k < Abs(r - fr) \/ k < Abs(c - fc)) =>
       board[fr + k * Sign(r - fr)][fc + k * Sign(c - fc)] = "--"

\* By the rules of chess, the piece on (fr, fc) attacks the square (r, c)
Attacks(board, fr, fc, r, c) ==
  LET p == board[fr][fc]
      straight == (fr = r) # (fc = c)
      diagonal == Abs(r - fr) = Abs(c - fc) /\ r # fr
  IN /\ p # "--"
     /\ CASE Type(p) = "p" -> /\ r = (IF Color(p) = "w" THEN fr - 1 ELSE fr + 1)
                              /\ Abs(c - fc) = 1
          [] Type(p) = "N" -> {Abs(r - fr), Abs(c - fc)} = {1, 2}
          [] Type(p) = "K" -> Abs(r - fr) <= 1 /\ Abs(c - fc) <= 1 /\ <<fr, fc>> # <<r, c>>
          [] Type(p) = "R" -> straight /\ ClearBetween(board, fr, fc, r, c)
          [] Type(p) = "B" -> diagonal /\ ClearBetween(board, fr, fc, r, c)
          [] Type(p) = "Q" -> (straight \/ diagonal) /\ ClearBetween(board, fr, fc, r, c)

\* By the rules of chess, a piece of colour c attacks the square sq
AttackedBy(board, c, sq) ==
  \E from \in Squares :
    /\ board[from[1]][from[2]] # "--"
    /\ Color(board[from[1]][from[2]]) = c
    /\ Attacks(board, from[1], from[2], sq[1], sq[2])

OppColor(g) == IF g.whiteToMove THEN "b" ELSE "w"

\* The squares next to the king of the side to move that hold no piece of
\* that side and are not attacked once the king is relocated there
KingEscapes(g) ==
  LET k == KingLocation(g)
  IN {sq \in Squares :
        /\ sq # k
        /\ Abs(sq[1] - k[1]) <= 1 /\ Abs(sq[2] - k[2]) <= 1
        /\ (g.board[sq[1]][sq[2]] = "--" \/ Color(g.board[sq[1]][sq[2]]) = OppColor(g))
        /\ ~AttackedBy(Put(Put(g.board, k[1], k[2], "--"), sq[1], sq[2], g.board[k[1]][k[2]]),
                       OppColor(g), sq)}

\* main() is about to generate the moves of the position gs (line 643)
ToGenerate == gs.moveMade /\ ~gs.gameOver

\* The moves form the set of king moves to the squares of KingEscapes(g)
OnlyKingEscapes(g, moves) ==
  /\ \A i \in 1..Len(moves) :
        /\ Type(moves[i].pieceMoved) = "K"
        /\ ~moves[i].isCastleMove
        /\ <<moves[i].startRow, moves[i].startCol>> = KingLocation(g)
  /\ {<<moves[i].endRow, moves[i].endCol>> : i \in 1..Len(moves)} = KingEscapes(g)
  /\ Len(moves) = Cardinality(KingEscapes(g))

\* C14: when the scan has recorded two or more checks against the side to
\* move, validMoveIfCheck returns exactly the king moves whose destination
\* is not attacked once the king is there, no other move and no castling.
C14_DoubleCheckOnlyKingMoves ==
  (ToGenerate /\ gs.isChecked /\ Len(gs.checks) > 1) =>
     OnlyKingEscapes(gs, validMoveIfCheck(gs).moves)

\* A double check that leaves the king a square to go to
C14_Witness ==
  /\ ToGenerate
  /\ gs.isChecked
  /\ Len(gs.checks) = 2
  /\ Len(validMoveIfCheck(gs).moves) > 0

\* The squares of the pieces that, by the rules of chess, give check to the
\* side to move
Checkers(g) ==
  {from \in Squares :
     /\ g.board[from[1]][from[2]] # "--"
     /\ Color(g.board[from[1]][from[2]]) = OppColor(g)
     /\ Attacks(g.board, from[1], from[2], KingLocation(g)[1], KingLocation(g)[2])}

\* The side to move is in check from exactly one piece, a rook, a bishop or
\* a queen
InSingleSliderCheck(g) ==
  /\ Cardinality(Checkers(g)) = 1
  /\ \A from \in Checkers(g) : Type(g.board[from[1]][from[2]]) \in {"R", "B", "Q"}

\* The squares from the one next to the king up to and including the
\* square from of the checker
CheckSegment(g, from) ==
  LET k == KingLocation(g)
  IN {sq \in Squares :
        \E i \in 1..7 :
          /\ sq = <<k[1] + i * Sign(from[1] - k[1]), k[2] + i * Sign(from[2] - k[2])>>
          /\ i <= Abs(from[1] - k[1]) \/ i <= Abs(from[2] - k[2])}

\* C15: when the side to move is in single check from a rook, bishop or
\* queen, every non-king move validMoveIfCheck returns ends on the segment
\* from the square next to the king up to the checker's square.
C15_SingleCheckMovesOnSegment ==
  (ToGenerate /\ InSingleSliderCheck(gs)) =>
     \A from \in Checkers(gs) :
       \A i \in 1..Len(validMoveIfCheck(gs).moves) :
         LET m == validMoveIfCheck(gs).moves[i]
         IN Type(m.pieceMoved) # "K" => <<m.endRow, m.endCol>> \in CheckSegment(gs, from)


\* The fingerprint the cache computes for the position g
Fingerprint(g) ==
  board_to_fen(g.board, g.whiteToMove, g.castleRights, g.enPassantTargetSquare)

\* The move strings recorded so far for the fingerprint fen, in the order of
\* the calls, from the i-th call on
RECURSIVE RecordedFor(_, _)
RecordedFor(fen, i) ==
  IF i > Len(recorded) THEN <<>>
  ELSE (IF recorded[i].fen = fen THEN <<recorded[i].move>> ELSE <<>>)
       \o RecordedFor(fen, i + 1)

\* The string the cache writes for the move m
Notation(m) ==
  fen_to_custom_notation(<<m.startRow, m.startCol>>, <<m.endRow, m.endCol>>,
                         m.pieceMoved)

\* C16: when findBestMove is called on a position for whose fingerprint a
\* search has recorded a move before, the call does not search: it ends with
\* exactly one move in the return queue, and that move is one of those
\* recorded for the fingerprint.
C16_CacheHitShortCircuits ==
  [][(searches' = searches + 1 /\ RecordedFor(Fingerprint(sgs'), 1) # <<>>) =>
       /\ pc' = "cached"
       /\ Len(returnQueue') = 1
       /\ returnQueue'[1] # None
       /\ \E k \in 1..Len(recorded) :
             /\ recorded[k].fen = Fingerprint(sgs')
             /\ recorded[k].move = Notation(returnQueue'[1][1])]_vars


\* C17: after any sequence of record calls the store holds, for every
\* fingerprint a move was recorded for, the list of all the move strings
\* recorded for it, in the order of the calls.
C17_RecordAppends ==
  \A k \in 1..Len(recorded) :
    /\ file.kind = "json"
    /\ recorded[k].fen \in DOMAIN file.store
    /\ file.store[recorded[k].fen]["best_moves"] = RecordedFor(recorded[k].fen, 1)


\* C18: while best_moves.json is a file the program has not written (it is
\* missing, empty, or holds what cannot be decoded), the program has loaded
\* it without an error, the cache it loaded is empty, and no call of
\* findBestMove has ended in the lookup: every call searches.
C18_BadStoreIsEmptyCache ==
  file \in StartFiles =>
    /\ pc # "crashed"
    /\ data = emptyData
    /\ pc \notin {"failed", "cached"}


\* The search is about to make the move at the index of its innermost call
\* and to generate the moves of the position that gives
SearchToGenerate ==
  /\ pc = "search"
  /\ ~stack[Len(stack)].leaf
  /\ stack[Len(stack)].k <= Len(stack[Len(stack)].validMoves)

\* The position the search generates the moves of next
SearchPosition == makeMove(sgs, stack[Len(stack)].validMoves[stack[Len(stack)].k])

\* The check and pin state stored in g is that of its board and side to move
CheckStateCurrent(g) ==
  /\ g.isChecked = checkForPinsandChecks(g).isChecked
  /\ g.checks = checkForPinsandChecks(g).checks
  /\ g.pins = checkForPinsandChecks(g).pins

\* C19: whenever the moves of a position are about to be generated, by the
\* game loop after a move or an undo or by the search after makeMove, the
\* isChecked, checks and pins the generation uses are what
\* checkForPinsandChecks returns for the board and the side to move.
C19_GenerationUsesCurrentCheckState ==
  /\ ToGenerate => CheckStateCurrent(gs)
  /\ SearchToGenerate => CheckStateCurrent(SearchPosition)


\* C20: when the generation of the moves of a position gives no move, it has
\* set checkmate if the side to move is in check, by one piece or by two,
\* and stalemate if it is not.
C20_EmptyListSetsTerminalFlag ==
  (ToGenerate /\ Len(validMoveIfCheck(gs).moves) = 0) =>
     IF gs.isChecked THEN validMoveIfCheck(gs).gs.checkmate
                     ELSE validMoveIfCheck(gs).gs.stalemate


\* C21: a generation of the moves of a position leaves the recorded pins as
\* they were, and a second generation right after it, with no scan in
\* between, gives the same moves as the first.
C21_GenerationKeepsPins ==
  ToGenerate =>
    /\ validMoveIfCheck(gs).gs.pins = gs.pins
    /\ validMoveIfCheck(validMoveIfCheck(gs).gs).moves = validMoveIfCheck(gs).moves


\* The list validMoveIfCheck gives for the position g and its side to move
\* when the check and pin state is that of the position
GeneratedFor(g) == validMoveIfCheck(scanPinsAndChecks(g)).moves

\* C22: every move applied to the position of the game is one of the moves
\* generated for the position and the side to move it is applied to.
C22_AppliedMoveIsGenerated ==
  [][Len(gs'.moveLog) = Len(gs.moveLog) + 1 =>
       \E i \in 1..Len(GeneratedFor(gs)) :
          GeneratedFor(gs)[i] = gs'.moveLog[Len(gs'.moveLog)]]_vars


\* The last two moves of log have the start and end squares of the two moves
\* played back plies before them, in the same order
LastTwoRepeat(log, back) ==
  /\ Len(log) >= back + 2
  /\ log[Len(log)].moveID = log[Len(log) - back].moveID
  /\ log[Len(log) - 1].moveID = log[Len(log) - 1 - back].moveID

\* C23: threeMoveRule returns true exactly when the last two moves played
\* are equal to the two moves played right before them, and false when
\* fewer than four moves have been played.
C23_RepetitionOfPrecedingTwo ==
  threeMoveRule(gs) <=> LastTwoRepeat(gs.moveLog, 2)

\* C23 as amended: threeMoveRule returns true exactly when at least six
\* moves have been played and the last two of them are equal to the two
\* moves played four plies before them: the last move to the fifth from the
\* end, the move before it to the sixth from the end.
C23_RepetitionFourPliesBack ==
  threeMoveRule(gs) <=> LastTwoRepeat(gs.moveLog, 4)

\* Both knights have gone out, back and out again: the game has ended by
\* repetition
C23_Witness ==
  /\ gs.threeMoveRepetition
  /\ gs.gameOver
  /\ Len(gs.moveLog) = 6
  /\ threeMoveRule(gs)


\* The side to move holds the right to castle on the king's side (kingSide)
\* or on the queen's side
HoldsRight(g, kingSide) ==
  IF g.whiteToMove
  THEN (IF kingSide THEN g.castleRights.whiteKingSide ELSE g.castleRights.whiteQueenSide)
  ELSE (IF kingSide THEN g.castleRights.blackKingSide ELSE g.castleRights.blackQueenSide)

\* The conditions of castling hold in g for the castling move m, dir being
\* the direction in which the king goes
CastleAllowedTowards(g, m, dir) ==
  /\ <<m.startRow, m.startCol>> = KingLocation(g)
  /\ m.endRow = m.startRow /\ m.endCol = m.startCol + 2 * dir
  /\ ~AttackedBy(g.board, OppColor(g), KingLocation(g))
  /\ HoldsRight(g, dir = 1)
  /\ g.board[m.startRow][m.startCol + dir] = "--"
  /\ g.board[m.startRow][m.startCol + 2 * dir] = "--"
  /\ ~AttackedBy(g.board, OppColor(g), <<m.startRow, m.startCol + dir>>)
  /\ ~AttackedBy(g.board, OppColor(g), <<m.startRow, m.startCol + 2 * dir>>)
  /\ dir = -1 => g.board[m.startRow][m.startCol - 3] = "--"

CastleAllowed(g, m) ==
  CastleAllowedTowards(g, m, IF m.endCol > m.startCol THEN 1 ELSE -1)

\* C24: every castling move generated for a position is generated with the
\* king of the side to move not attacked, the matching right held, the two
\* squares the king crosses empty and not attacked, and, on the queen's
\* side, the third square between king and rook empty.
C24_CastlingOnlyWhenAllowed ==
  ToGenerate =>
    \A i \in 1..Len(validMoveIfCheck(gs).moves) :
      validMoveIfCheck(gs).moves[i].isCastleMove =>
        CastleAllowed(gs, validMoveIfCheck(gs).moves[i])

\* Castling on the queen's side is generated although a square the king
\* does not cross, next to the rook, is attacked
C24_Witness ==
  /\ ToGenerate
  /\ AttackedBy(gs.board, OppColor(gs), <<KingLocation(gs)[1], 1>>)
  /\ \E i \in 1..Len(validMoveIfCheck(gs).moves) :
        /\ validMoveIfCheck(gs).moves[i].isCastleMove
        /\ validMoveIfCheck(gs).moves[i].endCol = 2

\* The move m takes away the right of the colour c to castle towards the
\* corner in column col of its back row: m moves the king of c, or moves a
\* rook of c away from that corner, or captures a rook of c on that corner
ClearsRight(m, c, row, col) ==
  \/ m.pieceMoved = Piece(c, "K")
  \/ m.pieceMoved = Piece(c, "R") /\ m.startRow = row /\ m.startCol = col
  \/ m.pieceCaptured = Piece(c, "R") /\ m.endRow = row /\ m.endCol = col

\* The rights that are left of cr once the move m is made
RightsLeft(cr, m) ==
  [whiteKingSide  |-> cr.whiteKingSide /\ ~ClearsRight(m, "w", 7, 7),
   whiteQueenSide |-> cr.whiteQueenSide /\ ~ClearsRight(m, "w", 7, 0),
   blackKingSide  |-> cr.blackKingSide /\ ~ClearsRight(m, "b", 0, 7),
   blackQueenSide |-> cr.blackQueenSide /\ ~ClearsRight(m, "b", 0, 0)]

\* C25: a move that is made clears both rights of the mover when it moves a
\* king, the matching right when it moves a rook from its corner, the matching
\* right of the opponent when it captures a rook on its corner, whatever piece
\* captures, and leaves every other right as it was.
C25_MakeMoveClearsExactly ==
  [][Len(gs'.moveLog) = Len(gs.moveLog) + 1 =>
       gs'.castleRights = RightsLeft(gs.castleRights, gs'.moveLog[Len(gs'.moveLog)])]_vars

\* The rook of a1 has just captured the rook of a8: each side has lost its
\* queen side right and kept its king side right
C25_Witness ==
  /\ Len(gs.moveLog) > 0
  /\ gs.moveLog[Len(gs.moveLog)].pieceMoved = "wR"
  /\ gs.moveLog[Len(gs.moveLog)].startRow = 7
  /\ gs.moveLog[Len(gs.moveLog)].startCol = 0
  /\ gs.moveLog[Len(gs.moveLog)].pieceCaptured = "bR"
  /\ gs.moveLog[Len(gs.moveLog)].endRow = 0
  /\ gs.moveLog[Len(gs.moveLog)].endCol = 0
  /\ gs.castleRights = [whiteKingSide |-> TRUE, whiteQueenSide |-> FALSE,
                        blackKingSide |-> TRUE, blackQueenSide |-> FALSE]

\* C26: a search is started only when none runs, and while one runs (and the
\* search on the copy is all that runs) the position of the game does not
\* change: the search changes its own copy only, until the result is taken
\* out of the queue.
C26_OneSearchOnItsCopy ==
  [][/\ searches' # searches => pc # "search" /\ stack = <<>>
     /\ pc \in {"search", "done"} => gs' = gs
     /\ pc' = "moved" => pc = "compared" /\ stack = <<>>]_vars

\* A search runs two calls deep on a copy whose board is no longer the board
\* of the game
C26_Witness ==
  /\ pc = "search"
  /\ alg = "AlphaBeta"
  /\ Len(stack) > 1
  /\ sgs.board # gs.board
  /\ Len(sgs.moveLog) > Len(gs.moveLog)

\* The frame on top of the stack has made its move number k - 1 and taken it
\* back
LastTried(f) == f.validMoves[f.k - 1]

\* C27: whenever a move is taken back from a position with a move in its
\* history, on the position of the game or on the copy the search works on,
\* the position has neither the checkmate nor the stalemate flag afterwards.
C27_UndoClearsEndFlags ==
  [][/\ Len(sgs'.moveLog) = Len(sgs.moveLog) - 1 =>
          ~sgs'.checkmate /\ ~sgs'.stalemate
     /\ Len(gs'.moveLog) = Len(gs.moveLog) - 1 =>
          ~gs'.checkmate /\ ~gs'.stalemate]_vars

\* The search has taken back a move after which the generation found no move
\* and set one of the two flags, and the copy has neither flag
C27_Witness ==
  /\ pc = "search"
  /\ stack # <<>>
  /\ ~stack[Len(stack)].leaf
  /\ stack[Len(stack)].k > 1
  /\ stack[Len(stack)].k <= Len(stack[Len(stack)].validMoves)
  /\ Len(validMoveIfCheck(makeMove(sgs, LastTried(stack[Len(stack)]))).moves) = 0
  /\ \/ validMoveIfCheck(makeMove(sgs, LastTried(stack[Len(stack)]))).gs.checkmate
     \/ validMoveIfCheck(makeMove(sgs, LastTried(stack[Len(stack)]))).gs.stalemate
  /\ ~sgs.checkmate
  /\ ~sgs.stalemate

\* The rights that hold after the first n moves of log, from the rights of
\* the initial position
RECURSIVE RightsAfter(_, _)
RightsAfter(log, n) ==
  IF n = 0 THEN CastleRights(TRUE, TRUE, TRUE, TRUE)
  ELSE RightsLeft(RightsAfter(log, n - 1), log[n])

\* Every entry of the log of g is the rights that held after the moves of
\* the line played up to it
SnapshotsKept(g) ==
  /\ Len(g.castleRightsLog) = Len(g.moveLog) + 1
  /\ \A i \in 1..Len(g.castleRightsLog) :
        g.castleRightsLog[i] = RightsAfter(g.moveLog, i - 1)

\* C28: the entries of castleRightsLog are snapshots nothing changes: after
\* any moves and undos the entry at index i is the rights that held right
\* after the i-th move of the current line, the first one the initial rights.
C28_LogEntriesAreSnapshots == SnapshotsKept(gs)

\* The two king locations of g are the squares of the board of g that hold
\* the two kings
KingsLocated(g) ==
  /\ g.board[g.whiteKingLocation[1]][g.whiteKingLocation[2]] = "wK"
  /\ g.board[g.blackKingLocation[1]][g.blackKingLocation[2]] = "bK"

\* C29: in every state reached by making and taking back generated moves, in
\* play and inside the search, whiteKingLocation and blackKingLocation are
\* the squares that hold "wK" and "bK" on the board.
C29_KingLocationsMatchBoard ==
  /\ KingsLocated(gs)
  /\ pc = "search" => KingsLocated(sgs)

\* The king of the colour c stands on its original square of the back row
\* row, and the rook of c on the corner in column col of that row
AtHome(g, c, row, col) ==
  /\ g.board[row][4] = Piece(c, "K")
  /\ g.board[row][col] = Piece(c, "R")

\* Every right of g that is true has its king and its rook at home
RightsHaveKingAndRook(g) ==
  /\ g.castleRights.whiteKingSide => AtHome(g, "w", 7, 7)
  /\ g.castleRights.whiteQueenSide => AtHome(g, "w", 7, 0)
  /\ g.castleRights.blackKingSide => AtHome(g, "b", 0, 7)
  /\ g.castleRights.blackQueenSide => AtHome(g, "b", 0, 0)

\* C30: in every reachable state, a castling right that is true has the
\* king of its colour on e1 or e8 and the rook of its colour on its corner,
\* in the position of the game and in the copy a search works on.
C30_RightsImplyKingAndRookAtHome ==
  /\ RightsHaveKingAndRook(gs)
  /\ pc = "search" => RightsHaveKingAndRook(sgs)

====
